---- MODULE Spec2Model ----
(***************************************************************************)
(* State-machine model of the WebAR atom viewer (public/js/app.js second   *)
(* WebARAtomApp class, public/js/atom.js AtomModel, public/js/             *)
(* interactions.js InteractionManager).                                    *)
(*                                                                         *)
(* Conventions:                                                            *)
(*   - a JavaScript value that may be null/undefined is a sequence:        *)
(*     << >> is null/undefined, << v >> is the value v;                    *)
(*   - opacities and particle scales are in percent (1.0 = 100);           *)
(*   - the scale of the atom's group is counted in units of 1/800          *)
(*     (1.0 = 800, 0.1 = 80, 5.0 = 4000), which keeps halving and doubling *)
(*     between the clamp bounds exact; NaN is the number -1;               *)
(*   - pointers and controllers move along one axis; a yaw angle is        *)
(*     lin * 0.01 + pi * Math.PI radians, kept as the pair [lin, pi];      *)
(*   - colours are the 24-bit integers of the source's hex literals;       *)
(*   - time is counted in units of 100 ms.                                 *)
(***************************************************************************)
EXTENDS Integers, Sequences, FiniteSets, TLC

VARIABLES
    isARActive,              \* app.isARActive
    atomPlaced,              \* app.atomPlaced
    atom,                    \* app.atom: << >> or << AtomModel record >>
    sceneIndex,              \* app.sceneIndex
    reticleVisible,          \* app.reticle.visible
    reticlePosition,         \* x of the position held by app.reticle.matrix
    hitTestSource,           \* app.hitTestSource is non-null
    hitTestSourceRequested,  \* app.hitTestSourceRequested
    requestPending,          \* a requestHitTestSource promise of this session is unsettled
    endListener,             \* the current XR session carries the 'end' listener of handleHitTesting
    imAtom,                  \* interactionManager.atom is non-null
    instructionsHidden,      \* #instructions has class hidden
    panelHidden,             \* #eduPanel has class hidden
    panelContent,            \* #eduPanel innerHTML (which of the fixed texts)
    footerHidden,            \* #sceneFooter has class hidden
    challengeHidden,         \* #challengeOverlay has class hidden
    sceneIndicator,          \* number shown by #sceneIndicator (0: initial markup)
    atomClickHandler,        \* app.atomClickHandler is installed on the canvas
    selectedAnswer,          \* app.selectedAnswer: << >> or << kind >>
    selectedCard,            \* app.selectedCard:   << >> or << card >>
    cardSelected,            \* per answer card: has class selected
    cardHidden,              \* per answer card: style.display = 'none'
    slotCorrect,             \* per drop slot: has class correct
    slotIncorrect,           \* per drop slot: has class incorrect
    slotLabel,               \* per drop slot: .slot-content text, << >> is the empty text
    quizStatus,              \* #quizStatus text (which of the fixed messages)
    quizListeners,           \* click listeners installed per quiz element
    quizLog,                 \* history: completion messages shown, and whether a placement strayed
    timers,                  \* pending setTimeout callbacks, in scheduling order
    im,                      \* the fields of app.interactionManager
    controllers,             \* the two XR controllers: position, userData, buttons held
    pointersDown,            \* pointers that are down on the touch target
    now,                     \* performance.now(), in ms
    staleAtom,               \* transform of a disposed atom the interaction manager still holds
    instances,               \* atom groups in the scene, AtomModel objects not yet disposed
    sceneControls,           \* #nextScene and #prevScene carry the click listeners of setupSceneControls
    animationLoop,           \* renderer.setAnimationLoop holds the render callback of animate()
    touchListeners,          \* the touch target carries the pointer listeners of setupTouchEvents
    lastEvent,               \* history: the handler that ran last and its input
    prev                     \* history: the observable state before that handler

appVars  == <<isARActive, atomPlaced, atom, sceneIndex, imAtom>>
hitVars  == <<reticleVisible, reticlePosition, hitTestSource, hitTestSourceRequested,
              requestPending, endListener>>
domVars  == <<instructionsHidden, panelHidden, panelContent, footerHidden, challengeHidden,
              sceneIndicator, atomClickHandler>>
quizVars == <<selectedAnswer, selectedCard, cardSelected, cardHidden, slotCorrect,
              slotIncorrect, slotLabel, quizStatus, quizListeners, quizLog>>
imVars   == <<im, controllers, pointersDown, now, staleAtom>>
setupVars == <<sceneControls, animationLoop, touchListeners>>
vars     == <<appVars, hitVars, domVars, quizVars, timers, imVars, instances, setupVars,
              lastEvent, prev>>

----------------------------------------------------------------------------
(* Bounds of the model                                                     *)

MaxDropZones == 6     \* drop zones that repeated enableChallengeMode() calls pile up
MaxBadTimers == 2     \* pending removals of the bad mark per drop target
MaxListeners == 2     \* quiz listener sets counted exactly up to this number
MaxHighlightTimers == 1   \* pending showPartInfo callbacks
MaxQuizTimers == 2    \* pending quiz callbacks
MaxShown == 2         \* completion messages counted exactly up to this number
MaxOvershoot == 1     \* how far outside 0..5 the indices handed to gotoScene reach
MaxElapsed == 251     \* ms of performance.now() that are followed
MaxTurn == 20         \* hundredths of a radian that drags turn the atom, either way
MaxHalfTurns == 1     \* half turns that twists turn the atom, either way
MaxPosition == 40     \* a grab begins while the atom could not leave -MaxPosition..MaxPosition
MaxSqueezes == 2      \* entries of scalingControllers
MaxClickTimers == 2   \* pending callbacks of clicks on the canvas
MaxSpeed == 27        \* electron speed, in configured speeds, up to which clicks are followed

Null == << >>

Min(a, b) == IF a < b THEN a ELSE b
Max(a, b) == IF a > b THEN a ELSE b

RemoveAt(seq, i) == [j \in 1..(Len(seq) - 1) |-> IF j < i THEN seq[j] ELSE seq[j + 1]]

----------------------------------------------------------------------------
(* AtomModel: scene graph and materials                                    *)

Kinds == {"proton", "neutron", "electron"}

\* createNucleus: 13 nucleons, the first 6 are protons; one material per kind
NucleonCount == 13
ProtonCount  == 6
ElectronCount == 6
OrbitCount   == 4

Particle(i) == [type |-> "nucleon", idx |-> i,
                mat  |-> IF i < ProtonCount THEN <<"protonMaterial", 0>> ELSE <<"neutronMaterial", 0>>,
                kind |-> << IF i < ProtonCount THEN "proton" ELSE "neutron" >>,
                part |-> "nucleus"]
Glow(i)     == [type |-> "glow", idx |-> i,
                mat  |-> IF i = 0 THEN <<"innerGlowMaterial", 0>> ELSE <<"outerGlowMaterial", 0>>,
                kind |-> Null, part |-> ""]
Orbit(i)    == [type |-> "orbit", idx |-> i, mat |-> <<"orbitMaterial", i>>,
                kind |-> Null, part |-> "orbit"]
\* electron.userData carries part 'electron' and no kind
Electron(i) == [type |-> "electron", idx |-> i, mat |-> <<"electronMaterial", 0>>,
                kind |-> Null, part |-> "electron"]
Trail(i)    == [type |-> "trail", idx |-> i, mat |-> <<"trailMaterial", i>>,
                kind |-> Null, part |-> ""]

nucleus   == [i \in 1..NucleonCount |-> Particle(i - 1)]      \* this.nucleus (an Array)
electrons == [i \in 1..ElectronCount |-> Electron(i - 1)]     \* this.electrons

\* depth-first order of this.group.traverse over the objects that carry a material:
\* nucleusGroup's children (13 nucleons, then the two glow shells added by
\* addNucleusGlow), the orbit rings, then each electron followed by its trail
RECURSIVE ElectronsAndTrails(_)
ElectronsAndTrails(i) ==
    IF i >= ElectronCount THEN << >>
    ELSE <<Electron(i), Trail(i)>> \o ElectronsAndTrails(i + 1)

TraverseOrder ==
    nucleus \o <<Glow(0), Glow(1)>> \o [i \in 1..OrbitCount |-> Orbit(i - 1)]
            \o ElectronsAndTrails(0)

Objects   == {TraverseOrder[i] : i \in 1..Len(TraverseOrder)}
Materials == {o.mat : o \in Objects}

\* the value of this.nucleus as seen by "obj === this.nucleus": the Array itself,
\* which is not one of the traversed scene-graph objects
NucleusArrayRef == [type |-> "array", idx |-> 0, mat |-> <<"", 0>>, kind |-> Null, part |-> ""]

\* MeshStandardMaterial (has an emissive colour); the others are MeshBasicMaterial
\* or LineBasicMaterial
IsStandard(m) == m[1] \in {"protonMaterial", "neutronMaterial", "electronMaterial"}

OrigColor(m) ==
    CASE m[1] = "protonMaterial"    -> 16724787    \* 0xff3333
      [] m[1] = "neutronMaterial"   -> 6724095     \* 0x6699ff
      [] m[1] = "electronMaterial"  -> 65382       \* 0x00ff66
      [] m[1] = "innerGlowMaterial" -> 16755200    \* 0xffaa00
      [] m[1] = "outerGlowMaterial" -> 16768324    \* 0xffdd44
      [] m = <<"orbitMaterial", 0>> -> 4521864     \* 0x44ff88
      [] m = <<"orbitMaterial", 1>> -> 4491519     \* 0x4488ff
      [] m = <<"orbitMaterial", 2>> -> 16729224    \* 0xff4488
      [] m = <<"orbitMaterial", 3>> -> 16755268    \* 0xffaa44
      [] OTHER                      -> 65382       \* trails: 0x00ff66

OrigOpacity(m) ==
    CASE IsStandard(m)              -> 100
      [] m[1] = "innerGlowMaterial" -> 30
      [] m[1] = "outerGlowMaterial" -> 15
      [] m = <<"orbitMaterial", 0>> -> 40
      [] m[1] = "orbitMaterial"     -> 35
      [] OTHER                      -> 30          \* trails

\* a freshly constructed material; every material is created transparent: true
NewMaterial(m) ==
    [opacity |-> OrigOpacity(m), transparent |-> TRUE, color |-> OrigColor(m),
     emissive |-> IF IsStandard(m) THEN <<0>> ELSE Null,
     alphaTest |-> 0,
     origOpacity |-> Null, origTransparent |-> Null, origColor |-> Null,
     origEmissive |-> Null]

UnitScale == 800           \* this.baseScale = 1
PlacementScale == 400      \* atomGroup.scale.setScalar(0.5)

ZeroAngle == [lin |-> 0, pi |-> 0]

\* new AtomModel()
NewAtom ==
    [mats |-> [m \in Materials |-> NewMaterial(m)],
     hidden |-> {},                  \* objects with visible = false
     isFaded |-> FALSE,
     selectionKeepSet |-> Null,
     protonsAnimating |-> FALSE,     \* undefined until animateProtons; read only for truthiness
     neutronsAnimating |-> FALSE,
     protonScale |-> 100,            \* scale shared by the proton meshes
     neutronScale |-> 100,
     protonOrigScale |-> Null,       \* userData.originalScale of the protons
     neutronOrigScale |-> Null,
     groupScale |-> UnitScale,       \* group.scale
     baseScale |-> UnitScale,
     rotationY |-> ZeroAngle,        \* group.rotation.y
     position |-> 0,                 \* group.position.x
     electronSpeed |-> 1,            \* userData.speed of every electron, in configured speeds
     electronOriginalSpeed |-> Null, \* userData.originalSpeed of every electron
     challengeMode |-> FALSE,
     dropZones |-> 0,                \* this.dropZones.length (their own materials are not followed)
     disposed |-> FALSE]             \* dispose() has run on this instance

----------------------------------------------------------------------------
(* AtomModel: highlighting                                                 *)

BrightRed  == 16711680     \* 0xff0000
BrightBlue == 26367        \* 0x0066ff
NeutronEmphasisBlue == 6724095   \* 0x6699ff
DimOpacity == 10           \* 0.1
DimAlphaTest == 10         \* 0.1

\* "Store originals once": the four snapshots of highlightKind
SnapshotOnce(mat) ==
    [mat EXCEPT
       !.origTransparent = IF @ = Null THEN <<mat.transparent = TRUE>> ELSE @,
       !.origOpacity     = IF @ = Null THEN <<mat.opacity>> ELSE @,
       !.origColor       = IF @ = Null THEN <<mat.color>> ELSE @,
       !.origEmissive    = IF @ = Null
                           THEN (IF mat.emissive # Null THEN mat.emissive ELSE <<0>>)
                           ELSE @]

\* the shouldKeep branch of highlightKind for one material
KeepMaterial(mat, kind) ==
    [mat EXCEPT
       !.opacity = 100,
       !.transparent = FALSE,
       !.alphaTest = 0,
       !.color = IF kind = "proton" THEN BrightRed
                 ELSE IF kind = "neutron" THEN BrightBlue ELSE @,
       !.emissive = IF kind \in {"proton", "neutron"} /\ @ # Null THEN <<0>> ELSE @]

\* the else branch of highlightKind for one material
DimMaterial(mat) ==
    [mat EXCEPT
       !.opacity = DimOpacity,
       !.transparent = TRUE,
       !.alphaTest = DimAlphaTest,
       !.emissive = IF @ # Null THEN <<0>> ELSE @]

\* the keep set built at the top of highlightKind, per kind
KeepSets ==
    [kind \in Kinds |->
       IF kind \in {"proton", "neutron"}
       THEN {nucleus[i] : i \in {j \in 1..NucleonCount : nucleus[j].kind = <<kind>>}}
       ELSE {Electron(i) : i \in 0..(ElectronCount - 1)}
              \cup {Trail(i) : i \in 0..(ElectronCount - 1)}]

KeepSetOf(kind) == IF kind \in Kinds THEN KeepSets[kind] ELSE {}

\* the special case of both traversals: "obj === this.nucleus"
IsNucleusContainer(obj) == obj = NucleusArrayRef

\* the traversed objects that take that special case
ContainerObjects == {o \in Objects : IsNucleusContainer(o)}

\* the objects that carry each material, in traversal order
MaterialUsers == [m \in Materials |-> SelectSeq(TraverseOrder, LAMBDA o : o.mat = m)]

ObjectsOf(m) == MaterialUsers[m]

\* the body of the traverse callback of highlightKind for one object, on its material
HighlightObj(mat, obj, kind, keepSet) ==
    IF kind \in {"proton", "neutron"} /\ IsNucleusContainer(obj)
    THEN [mat EXCEPT !.transparent = TRUE, !.opacity = 0]
    ELSE IF obj \in keepSet THEN KeepMaterial(SnapshotOnce(mat), kind)
                            ELSE DimMaterial(SnapshotOnce(mat))

\* the traversal visits the objects in order; a shared material is written once
\* per object that carries it
RECURSIVE HighlightFrom(_, _, _, _, _)
HighlightFrom(mat, objs, i, kind, keepSet) ==
    IF i > Len(objs) THEN mat
    ELSE HighlightFrom(HighlightObj(mat, objs[i], kind, keepSet), objs, i + 1, kind, keepSet)

\* AtomModel.highlightKind(kind)
highlightKind(a, kind) ==
    LET keepSet == KeepSetOf(kind) IN
    [a EXCEPT
       !.selectionKeepSet = <<keepSet>>,
       !.mats = [m \in Materials |-> HighlightFrom(a.mats[m], ObjectsOf(m), 1, kind, keepSet)],
       !.hidden = @ \cup (IF kind \in {"proton", "neutron"} THEN ContainerObjects ELSE {}),
       !.isFaded = TRUE]

\* variant: the colour snapshot is not copied back
RestoreMaterialNoColor(mat) ==
    [mat EXCEPT
       !.opacity     = IF mat.origOpacity # Null THEN mat.origOpacity[1] ELSE 100,
       !.transparent = IF mat.origTransparent # Null THEN mat.origTransparent[1] ELSE @]

\* the body of the traverse callback of restoreOpacity for one material
RestoreMaterial(mat) ==
    [mat EXCEPT
       !.opacity     = IF mat.origOpacity # Null THEN mat.origOpacity[1] ELSE 100,
       !.transparent = IF mat.origTransparent # Null THEN mat.origTransparent[1] ELSE @,
       !.color       = IF mat.origColor # Null THEN mat.origColor[1] ELSE @,
       !.emissive    = IF mat.origEmissive # Null /\ @ # Null THEN mat.origEmissive ELSE @]

RestoreObj(mat, obj) ==
    IF IsNucleusContainer(obj)
    THEN [mat EXCEPT !.transparent = TRUE, !.opacity = 0]
    ELSE RestoreMaterial(mat)

RECURSIVE RestoreFrom(_, _, _)
RestoreFrom(mat, objs, i) ==
    IF i > Len(objs) THEN mat
    ELSE RestoreFrom(RestoreObj(mat, objs[i]), objs, i + 1)

\* variant: no early return when nothing is faded
restoreOpacityUnguarded(a) ==
    [a EXCEPT
       !.mats = [m \in Materials |-> RestoreFrom(a.mats[m], ObjectsOf(m), 1)],
       !.hidden = @ \cup ContainerObjects,
       !.selectionKeepSet = Null,
       !.isFaded = FALSE]

\* AtomModel.restoreOpacity()
restoreOpacity(a) ==
    IF ~a.isFaded THEN a
    ELSE [a EXCEPT
            !.mats = [m \in Materials |-> RestoreFrom(a.mats[m], ObjectsOf(m), 1)],
            !.hidden = @ \cup ContainerObjects,
            !.selectionKeepSet = Null,
            !.isFaded = FALSE]

\* AtomModel.clearHighlights()
clearHighlights(a) == restoreOpacity(a)

\* objects handed to fadeExcept: the nucleus group, an electron mesh, an orbit ring
FadeTargets == {"nucleusGroup", "electron", "orbit"}

\* targetObject.traverse: the object and its descendants that carry a material
FadeKeepSet(target) ==
    CASE target = "nucleusGroup" ->
            {nucleus[i] : i \in 1..NucleonCount} \cup {Glow(0), Glow(1)}
      [] target = "electron" -> {Electron(0)}
      [] OTHER -> {Orbit(0)}

FadeOpacity == 10          \* fadeOpacity = 0.1

\* the body of the traverse callback of fadeExcept for one object, on its material
FadeObj(mat, obj, keepSet) ==
    [mat EXCEPT
       !.origTransparent = IF @ = Null THEN <<mat.transparent = TRUE>> ELSE @,
       !.origOpacity     = IF @ = Null THEN <<mat.opacity>> ELSE @,
       !.transparent = TRUE,
       !.opacity = IF obj \in keepSet THEN 100 ELSE FadeOpacity]

RECURSIVE FadeFrom(_, _, _, _)
FadeFrom(mat, objs, i, keepSet) ==
    IF i > Len(objs) THEN mat
    ELSE FadeFrom(FadeObj(mat, objs[i], keepSet), objs, i + 1, keepSet)

\* AtomModel.fadeExcept(targetObject), with the default fadeOpacity
fadeExcept(a, target) ==
    LET keepSet == FadeKeepSet(target) IN
    [a EXCEPT
       !.selectionKeepSet = <<keepSet>>,
       !.mats = [m \in Materials |-> FadeFrom(a.mats[m], ObjectsOf(m), 1, keepSet)],
       !.isFaded = TRUE]

LabelOpacity == 30         \* hideParticleLabels: opacity = 0.3
DropZoneCount == 3

\* AtomModel.enableChallengeMode(): createDropZones and hideParticleLabels
enableChallengeMode(a) ==
    [a EXCEPT
       !.challengeMode = TRUE,
       !.dropZones = @ + DropZoneCount,
       !.mats = [m \in Materials |->
                   IF \E i \in 1..NucleonCount : nucleus[i].mat = m
                      THEN [a.mats[m] EXCEPT !.opacity = LabelOpacity]
                   ELSE IF \E i \in 1..ElectronCount : electrons[i].mat = m
                      THEN [a.mats[m] EXCEPT !.opacity = LabelOpacity]
                   ELSE a.mats[m]]]

\* AtomModel.disableChallengeMode(): removeDropZones and showParticleLabels
disableChallengeMode(a) ==
    [a EXCEPT
       !.challengeMode = FALSE,
       !.dropZones = 0,
       !.mats = [m \in Materials |->
                   IF \E i \in 1..NucleonCount : nucleus[i].mat = m
                      THEN [a.mats[m] EXCEPT !.opacity = 100]
                   ELSE IF \E i \in 1..ElectronCount : electrons[i].mat = m
                      THEN [a.mats[m] EXCEPT !.opacity = 100]
                   ELSE a.mats[m]]]

EmphasisScale == 150       \* setScalar(1.5)

\* AtomModel.animateProtons(enableAnimation)
animateProtons(a, enableAnimation) ==
    [a EXCEPT !.protonsAnimating = enableAnimation,
              !.protonOrigScale = IF @ = Null THEN <<a.protonScale>> ELSE @,
              !.protonScale = EmphasisScale,
              !.mats[<<"protonMaterial", 0>>].color = BrightRed]

\* variant: the pulse flag is cleared but the stored scale is not copied back
stopProtonAnimationKeepingScale(a) ==
    [a EXCEPT !.protonsAnimating = FALSE]

\* pulseScale = 1.5 + Math.sin(protonAnimationTime * 3) * 0.1, in whole percent:
\* the clock delta of a frame is any time, so that the sine is anywhere in -1..1
PulseScales == 140..160

\* AtomModel.animate(deltaTime), on the fields that are followed: the proton pulse.
\* (The vibration, the orbits and the spin of the nucleus move no followed field;
\* there is no neutron branch.)
animate(a, pulse) ==
    [a EXCEPT !.protonScale = IF a.protonsAnimating THEN pulse ELSE @]

\* AtomModel.stopProtonAnimation()
stopProtonAnimation(a) ==
    [a EXCEPT !.protonsAnimating = FALSE,
              !.protonScale = IF a.protonOrigScale # Null THEN a.protonOrigScale[1] ELSE @]

\* AtomModel.animateNeutrons(enableAnimation)
animateNeutrons(a, enableAnimation) ==
    [a EXCEPT !.neutronsAnimating = enableAnimation,
              !.neutronOrigScale = IF @ = Null THEN <<a.neutronScale>> ELSE @,
              !.neutronScale = EmphasisScale,
              !.mats[<<"neutronMaterial", 0>>].color = NeutronEmphasisBlue]

\* AtomModel.stopNeutronAnimation()
stopNeutronAnimation(a) ==
    [a EXCEPT !.neutronsAnimating = FALSE,
              !.neutronScale = IF a.neutronOrigScale # Null THEN a.neutronOrigScale[1] ELSE @]

\* the appearance of the atom: opacity, transparency flag and colour of every material
Appearance(a) ==
    [m \in Materials |-> [opacity |-> a.mats[m].opacity,
                          transparent |-> a.mats[m].transparent,
                          color |-> a.mats[m].color]]

----------------------------------------------------------------------------
(* InteractionManager: state, helpers and handlers                         *)

PointerIds == {1, 2}           \* pointerId of the pointers of the touch target
PointerXs == {0, 10}           \* clientX of pointerdown and pointermove events
PinchXs == {0, 10, 20}         \* the same, for gestures that halve and double a distance
ReleaseXs == {0, 7, 9}         \* clientX of pointerup, pointerout, pointerleave, pointercancel
Controllers == {0, 1}          \* renderer.xr.getController(0), getController(1)
ControllerXs == {0, 10, 20}    \* position.x of a controller
Durations == {249, 251}        \* ms that pass between two events

TapMaxDuration == 250      \* dt < 250
TapMaxMove == 8            \* moved < 8
MinScale == 80             \* Math.max(0.1, ...)
MaxScale == 4000           \* Math.min(5, ...)
NaN == 0 - 1
Infinity == 0 - 2

Abs(n) == IF n < 0 THEN 0 - n ELSE n

\* the external transform of an atom
Transform(a) ==
    [groupScale |-> a.groupScale, baseScale |-> a.baseScale,
     rotationY |-> a.rotationY, position |-> a.position]

DropAccepts == {"nucleus", "electron-shell"}   \* data-accept of the drop targets

\* new InteractionManager(renderer, scene, camera); #infoToast starts hidden
NewInteractionManager ==
    [isGrabbing |-> FALSE,
     grabController |-> Null,
     initialControllerPosition |-> 0,
     initialAtomPosition |-> 0,
     initialScale |-> UnitScale,
     isScaling |-> FALSE,
     scalingControllers |-> << >>,
     initialDistance |-> 0,
     activePointers |-> << >>,       \* Map in insertion order: [id, x]
     isTouchGrabbing |-> FALSE,
     initialTouchDistance |-> 0,
     initialTouchAngle |-> ZeroAngle,
     initialRotationY |-> ZeroAngle,
     hasTouchTarget |-> FALSE,
     isTouchRotating |-> FALSE,
     initialTouchX |-> 0,
     tapStartTime |-> Null,          \* _tapStartTime
     tapStartPos |-> Null,           \* _tapStartPos.x
     toast |-> Null,                 \* text shown by #infoToast, << >> while hidden
     toastTimer |-> FALSE,           \* _infoTimeout is pending
     draggingEl |-> Null,            \* data-key of the card in draggingEl
     cardsHidden |-> {},             \* data-keys of the dragged cards with class hidden
     targetMark |-> [t \in DropAccepts |-> "none"],   \* class ok or bad of a drop target
     badPending |-> [t \in DropAccepts |-> 0],   \* pending 500 ms removals of bad, per target
     hadTwo |-> FALSE,               \* history: two pointers were registered at once since
                                     \* activePointers was last empty
     baselinePair |-> Null,          \* history: the ids of the two pointers the pinch
                                     \* baselines were taken from since then
     release |-> Null]               \* history: duration, displacement and outcome of the
                                     \* tap test, while the pointer handler that made it
                                     \* is the last one that changed the pointers

\* the controller objects before any input
NewControllers ==
    [pos |-> [c \in Controllers |-> 0],
     isSelecting |-> [c \in Controllers |-> FALSE],     \* userData.isSelecting
     isSqueezing |-> [c \in Controllers |-> FALSE],     \* userData.isSqueezing
     selectHeld |-> {},                                  \* triggers held down
     squeezeHeld |-> {}]                                 \* grips held down

HasPointer(ptrs, id) == \E i \in 1..Len(ptrs) : ptrs[i].id = id

\* Map.set(id, {x, y})
SetPointer(ptrs, id, x) ==
    IF HasPointer(ptrs, id)
    THEN [i \in 1..Len(ptrs) |-> IF ptrs[i].id = id THEN [id |-> id, x |-> x] ELSE ptrs[i]]
    ELSE Append(ptrs, [id |-> id, x |-> x])

\* Map.delete(id)
DeletePointer(ptrs, id) == SelectSeq(ptrs, LAMBDA p : p.id # id)

\* InteractionManager.distance2(p1, p2): Math.hypot(dx, 0)
distance2(p1, p2) == Abs(p1.x - p2.x)

\* InteractionManager.angle2(p1, p2): Math.atan2(0, p2.x - p1.x)
angle2(p1, p2) == IF p2.x - p1.x < 0 THEN [lin |-> 0, pi |-> 1] ELSE ZeroAngle

AddAngle(a, b) == [lin |-> a.lin + b.lin, pi |-> a.pi + b.pi]
SubAngle(a, b) == [lin |-> a.lin - b.lin, pi |-> a.pi - b.pi]

\* scale * (num / den) in floating point: 0 / 0 is NaN, n / 0 is Infinity
Times(scale, num, den) ==
    IF scale = NaN THEN NaN
    ELSE IF den = 0 THEN (IF num = 0 THEN NaN ELSE Infinity)
    ELSE (scale * num) \div den

\* Math.max(0.1, Math.min(5, v)); both return NaN for NaN
ClampScale(v) ==
    IF v = NaN THEN NaN
    ELSE IF v = Infinity THEN MaxScale
    ELSE Max(MinScale, Min(MaxScale, v))

\* AtomModel.setScale(scale)
setScale(t, scale) == [t EXCEPT !.groupScale = scale, !.baseScale = scale]

\* AtomModel.getScale()
getScale(t) == t.baseScale

\* AtomModel.setRotationY(angleRadians)
setRotationY(t, angle) == [t EXCEPT !.rotationY = angle]

\* AtomModel.getRotationY()
getRotationY(t) == t.rotationY

\* InteractionManager.showInfo(text)
showInfo(m, text) == [m EXCEPT !.toast = <<text>>, !.toastTimer = TRUE]

\* InteractionManager.setAtom(atom)
setAtom(m) == showInfo(m, "guide")

\* InteractionManager.handleTap(x, y): no object of the atom carries
\* userData.partType, so a hit ends at the "if (!part) return"
handleTap(s, hit) ==
    IF ~s.hasAtom THEN s
    ELSE IF ~hit THEN [s EXCEPT !.im = showInfo(@, "noTarget")]
    ELSE s

\* variant: the second pointer leaves the rotation flag as it is
onPointerDownKeepingRotation(s, id, x, hit) ==
    IF ~s.hasAtom THEN s
    ELSE LET ptrs == SetPointer(s.im.activePointers, id, x)
             size == Len(ptrs)
             m1 == [s.im EXCEPT !.activePointers = ptrs,
                                !.release = Null,
                                !.tapStartTime = IF size = 1 THEN <<s.now>> ELSE @,
                                !.tapStartPos = IF size = 1 THEN <<x>> ELSE @]
         IN IF size = 1 /\ hit
            THEN [s EXCEPT !.im = [m1 EXCEPT !.isTouchRotating = TRUE,
                                             !.initialTouchX = x,
                                             !.initialRotationY = getRotationY(s.t[1]),
                                             !.isTouchGrabbing = FALSE]]
            ELSE IF size = 2
            THEN [s EXCEPT !.im = [m1 EXCEPT !.hadTwo = TRUE,
                                             !.baselinePair = <<{ptrs[1].id, ptrs[2].id}>>,
                                             !.initialTouchDistance = distance2(ptrs[1], ptrs[2]),
                                             !.initialTouchAngle = angle2(ptrs[1], ptrs[2]),
                                             !.initialScale = getScale(s.t[1]),
                                             !.initialRotationY = getRotationY(s.t[1]),
                                             !.isTouchGrabbing = FALSE]]
            ELSE [s EXCEPT !.im = m1]

\* InteractionManager.onPointerDown(event); hit is isTouchOnAtom(x, y)
onPointerDown(s, id, x, hit) ==
    IF ~s.hasAtom THEN s
    ELSE LET ptrs == SetPointer(s.im.activePointers, id, x)
             size == Len(ptrs)
             m1 == [s.im EXCEPT !.activePointers = ptrs,
                                !.release = Null,
                                !.tapStartTime = IF size = 1 THEN <<s.now>> ELSE @,
                                !.tapStartPos = IF size = 1 THEN <<x>> ELSE @]
         IN IF size = 1 /\ hit
            THEN [s EXCEPT !.im = [m1 EXCEPT !.isTouchRotating = TRUE,
                                             !.initialTouchX = x,
                                             !.initialRotationY = getRotationY(s.t[1]),
                                             !.isTouchGrabbing = FALSE]]
            ELSE IF size = 2
            THEN [s EXCEPT !.im = [m1 EXCEPT !.hadTwo = TRUE,
                                             !.baselinePair = <<{ptrs[1].id, ptrs[2].id}>>,
                                             !.initialTouchDistance = distance2(ptrs[1], ptrs[2]),
                                             !.initialTouchAngle = angle2(ptrs[1], ptrs[2]),
                                             !.initialScale = getScale(s.t[1]),
                                             !.initialRotationY = getRotationY(s.t[1]),
                                             !.isTouchGrabbing = FALSE,
                                             !.isTouchRotating = FALSE]]
            ELSE [s EXCEPT !.im = m1]

\* the two-pointer branch of onPointerMove: pinch, then twist
PinchAndTwist(s, ptrs) ==
    LET currentDistance == distance2(ptrs[1], ptrs[2])
        currentAngle == angle2(ptrs[1], ptrs[2])
        scaled == IF s.im.initialTouchDistance > 0
                  THEN setScale(s.t[1], ClampScale(Times(s.im.initialScale, currentDistance,
                                                         s.im.initialTouchDistance)))
                  ELSE s.t[1]
    IN setRotationY(scaled, AddAngle(s.im.initialRotationY,
                                     SubAngle(currentAngle, s.im.initialTouchAngle)))

\* variant: a remaining pointer rotates the atom whether or not the flag is set
onPointerMoveUnflagged(s, id, x) ==
    IF ~s.hasAtom \/ ~HasPointer(s.im.activePointers, id) THEN s
    ELSE LET ptrs == SetPointer(s.im.activePointers, id, x)
             s1 == [s EXCEPT !.im.activePointers = ptrs, !.im.release = Null]
         IN IF Len(ptrs) = 1
            THEN [s1 EXCEPT !.t = <<setRotationY(s.t[1],
                     [s.im.initialRotationY EXCEPT !.lin = @ + (ptrs[1].x - s.im.initialTouchX)])>>]
            ELSE IF Len(ptrs) = 2
            THEN [s1 EXCEPT !.t = <<PinchAndTwist(s, ptrs)>>]
            ELSE s1

\* InteractionManager.onPointerMove(event)
onPointerMove(s, id, x) ==
    IF ~s.hasAtom \/ ~HasPointer(s.im.activePointers, id) THEN s
    ELSE LET ptrs == SetPointer(s.im.activePointers, id, x)
             s1 == [s EXCEPT !.im.activePointers = ptrs, !.im.release = Null]
         IN IF Len(ptrs) = 1 /\ s.im.isTouchRotating
            \* rotationSensitivity 0.01: one pixel is one unit of lin
            THEN [s1 EXCEPT !.t = <<setRotationY(s.t[1],
                     [s.im.initialRotationY EXCEPT !.lin = @ + (ptrs[1].x - s.im.initialTouchX)])>>]
            ELSE IF Len(ptrs) = 2
            THEN [s1 EXCEPT !.t = <<PinchAndTwist(s, ptrs)>>]
            ELSE s1

\* dt and moved of onPointerUp
TapDuration(m, time) == time - m.tapStartTime[1]
TapMove(m, x) == Abs(x - (IF m.tapStartPos # Null THEN m.tapStartPos[1] ELSE 0))

\* variant: the tap test looks at the duration only
IsTapByDuration(m, time, x) == TapDuration(m, time) < TapMaxDuration

\* whether onPointerUp classifies the release at x as a tap
IsTap(m, time, x) ==
    /\ TapDuration(m, time) < TapMaxDuration
    /\ TapMove(m, x) < TapMaxMove

\* variant: the tap bookkeeping is not cleared after the classification
onPointerUpKeepingTapStart(s, id, x, hit) ==
    LET ptrs == DeletePointer(s.im.activePointers, id)
        m1 == [s.im EXCEPT !.activePointers = ptrs,
                           !.initialTouchDistance = IF Len(ptrs) < 2 THEN 0 ELSE @,
                           !.release = Null]
        m2 == [m1 EXCEPT !.hadTwo = FALSE,
                         !.baselinePair = Null,
                         !.isTouchGrabbing = FALSE,
                         !.hasTouchTarget = FALSE,
                         !.isTouchRotating = FALSE]
        s2 == [s EXCEPT !.im = m2]
        tap == s.im.tapStartTime # Null /\ IsTap(s.im, s.now, x)
        s3 == IF tap THEN handleTap(s2, hit) ELSE s2
        tested == IF s.im.tapStartTime = Null THEN Null
                  ELSE <<[dt |-> TapDuration(s.im, s.now), moved |-> TapMove(s.im, x),
                          tap |-> tap]>>
    IN IF Len(ptrs) = 0
       THEN [s3 EXCEPT !.im.release = tested]
       ELSE [s EXCEPT !.im = m1]

\* InteractionManager.onPointerUp(event), also the listener of pointercancel,
\* pointerout and pointerleave; hit is the outcome of the raycast of handleTap
onPointerUp(s, id, x, hit) ==
    LET ptrs == DeletePointer(s.im.activePointers, id)
        m1 == [s.im EXCEPT !.activePointers = ptrs,
                           !.initialTouchDistance = IF Len(ptrs) < 2 THEN 0 ELSE @,
                           !.release = Null]
        m2 == [m1 EXCEPT !.hadTwo = FALSE,
                         !.baselinePair = Null,
                         !.isTouchGrabbing = FALSE,
                         !.hasTouchTarget = FALSE,
                         !.isTouchRotating = FALSE]
        s2 == [s EXCEPT !.im = m2]
        tap == s.im.tapStartTime # Null /\ IsTap(s.im, s.now, x)
        s3 == IF tap THEN handleTap(s2, hit) ELSE s2
        tested == IF s.im.tapStartTime = Null THEN Null
                  ELSE <<[dt |-> TapDuration(s.im, s.now), moved |-> TapMove(s.im, x),
                          tap |-> tap]>>
    IN IF Len(ptrs) = 0
       THEN [s3 EXCEPT !.im.tapStartTime = Null, !.im.tapStartPos = Null,
                       !.im.release = tested]
       ELSE [s EXCEPT !.im = m1]

\* InteractionManager.onControllerSelectStart(event); hit is whether
\* getIntersections(controller) is non-empty
onControllerSelectStart(s, c, hit) ==
    IF ~s.hasAtom \/ ~hit THEN s
    ELSE [s EXCEPT !.im.isGrabbing = TRUE,
                   !.im.grabController = <<c>>,
                   !.im.initialControllerPosition = s.ctl.pos[c],
                   !.im.initialAtomPosition = s.t[1].position,
                   !.ctl.isSelecting[c] = TRUE]

\* variant: the release of either trigger ends the grab
onControllerSelectEndOfAny(s, c) ==
    [s EXCEPT !.ctl.isSelecting[c] = FALSE,
              !.im.isGrabbing = FALSE,
              !.im.grabController = Null]

\* InteractionManager.onControllerSelectEnd(event)
onControllerSelectEnd(s, c) ==
    LET s1 == [s EXCEPT !.ctl.isSelecting[c] = FALSE]
    IN IF s.im.grabController = <<c>>
       THEN [s1 EXCEPT !.im.isGrabbing = FALSE, !.im.grabController = Null]
       ELSE s1

\* InteractionManager.onControllerSqueezeStart(event)
onControllerSqueezeStart(s, c) ==
    IF ~s.hasAtom THEN s
    ELSE LET list == Append(s.im.scalingControllers, c)
             s1 == [s EXCEPT !.im.scalingControllers = list, !.ctl.isSqueezing[c] = TRUE]
         IN IF Len(list) = 2
            THEN [s1 EXCEPT !.im.isScaling = TRUE,
                            !.im.initialDistance = Abs(s.ctl.pos[list[1]] - s.ctl.pos[list[2]]),
                            !.im.initialScale = getScale(s.t[1])]
            ELSE s1

\* Array.indexOf / splice(index, 1): the first occurrence is removed
RemoveFirst(list, c) ==
    IF \E i \in 1..Len(list) : list[i] = c
    THEN RemoveAt(list, CHOOSE i \in 1..Len(list) :
                            list[i] = c /\ \A j \in 1..(i - 1) : list[j] # c)
    ELSE list

\* InteractionManager.onControllerSqueezeEnd(event)
onControllerSqueezeEnd(s, c) ==
    LET list == RemoveFirst(s.im.scalingControllers, c)
    IN [s EXCEPT !.ctl.isSqueezing[c] = FALSE,
                 !.im.scalingControllers = list,
                 !.im.isScaling = IF Len(list) < 2 THEN FALSE ELSE @]

\* the scaling step of update()
SqueezeScale(s) ==
    LET list == s.im.scalingControllers
        currentDistance == Abs(s.ctl.pos[list[1]] - s.ctl.pos[list[2]])
    IN setScale(s.t[1], ClampScale(Times(s.im.initialScale, currentDistance,
                                         s.im.initialDistance)))

\* InteractionManager.update(), once per frame; isTouchGrabbing is never set, so
\* the touch-drag step does not run
update(s) ==
    IF ~s.hasAtom THEN s
    ELSE LET grabbed == IF s.im.isGrabbing /\ s.im.grabController # Null
                        THEN [s EXCEPT !.t[1].position = s.im.initialAtomPosition
                                 + (s.ctl.pos[s.im.grabController[1]] - s.im.initialControllerPosition)]
                        ELSE s
         IN IF s.im.isScaling /\ Len(s.im.scalingControllers) = 2
            THEN [grabbed EXCEPT !.t = <<SqueezeScale(grabbed)>>]
            ELSE grabbed

\* InteractionManager.scaleAtom(factor), factor = num / den
scaleAtom(s, num, den) ==
    IF ~s.hasAtom THEN s
    ELSE [s EXCEPT !.t = <<setScale(s.t[1], ClampScale(Times(getScale(s.t[1]), num, den)))>>]

----------------------------------------------------------------------------
(* Application shell: construction                                         *)

Slots == Kinds       \* data-target of the three drop slots
Cards == Kinds       \* data-answer of the three answer cards

PartInputs == {"nucleus", "electron", "orbit", "atom"}   \* arguments of handlePartSelection
PoseXs == {0, 3}      \* x of the poses that a hit test result gives

\* outcome of getHitTestResults / getPose: no result, a result without a pose,
\* or a result with a pose at x
HitInputs ==
    {[kind |-> "none", x |-> 0], [kind |-> "noPose", x |-> 0]}
        \cup {[kind |-> "hit", x |-> x] : x \in PoseXs}

\* what the handler that ran last started from
Snapshot == [sceneIndex |-> sceneIndex, atomPlaced |-> atomPlaced]

Event(name, arg) == [name |-> name, arg |-> arg]

Note(name, arg) ==
    /\ lastEvent' = Event(name, arg)
    /\ prev' = Snapshot

\* the state after the constructor: init() has thrown in setupInteractions
\* (the InteractionManager has no method on()), after the AR button, the
\* interaction manager and the 'select' listener were set up and before
\* setupEventListeners, setupEducationUI, setupSceneControls and animate();
\* the panel is as the page ships it, hidden or not (the error box that
\* showError appends to the body is not followed)
Init ==
    /\ isARActive = FALSE
    /\ atomPlaced = FALSE
    /\ atom = Null
    /\ sceneIndex = 0
    /\ reticleVisible = FALSE
    /\ reticlePosition = 0
    /\ hitTestSource = FALSE
    /\ hitTestSourceRequested = FALSE
    /\ requestPending = FALSE
    /\ endListener = FALSE
    /\ imAtom = FALSE
    /\ instructionsHidden = FALSE
    /\ panelHidden \in BOOLEAN
    /\ panelContent = "markup"
    /\ sceneControls = FALSE
    /\ animationLoop = FALSE
    /\ touchListeners = TRUE
    /\ footerHidden = TRUE
    /\ challengeHidden = TRUE
    /\ sceneIndicator = 0
    /\ atomClickHandler = FALSE
    /\ selectedAnswer = Null
    /\ selectedCard = Null
    /\ cardSelected = [c \in Cards |-> FALSE]
    /\ cardHidden = [c \in Cards |-> FALSE]
    /\ slotCorrect = [t \in Slots |-> FALSE]
    /\ slotIncorrect = [t \in Slots |-> FALSE]
    /\ slotLabel = [t \in Slots |-> Null]
    /\ quizStatus = <<"initial">>
    /\ quizListeners = 0
    /\ quizLog = [shown |-> 0, strayed |-> FALSE]
    /\ timers = << >>
    /\ im = NewInteractionManager
    /\ controllers = NewControllers
    /\ pointersDown = {}
    /\ now = 1
    /\ staleAtom = Null
    /\ instances = [inScene |-> 0, undisposed |-> 0]
    /\ lastEvent = Event("init", Null)
    /\ prev = [sceneIndex |-> 0, atomPlaced |-> FALSE]

----------------------------------------------------------------------------
(* Scene/Lesson sequencer                                                  *)

FirstScene == 0
LastScene  == 5
QuizScene  == 4

\* variant: the index wraps around instead of being clamped
ClampWrapping(index) == index % (LastScene + 1)

\* Math.max(0, Math.min(5, index))
Clamp(index) == Max(FirstScene, Min(LastScene, index))

\* the "Reset any highlights and animations" block of gotoScene
ResetEmphasis(a) ==
    stopNeutronAnimation(stopProtonAnimation(restoreOpacity(clearHighlights(a))))

\* variant: scenes 1 and 2 start the pulse
SceneAtomPulsing(clamped, atomIn) ==
    IF atomIn = Null THEN Null
    ELSE LET a == ResetEmphasis(atomIn[1]) IN
         CASE clamped = 1 -> << animateProtons(highlightKind(a, "proton"), TRUE) >>
           [] clamped = 2 -> << animateNeutrons(highlightKind(a, "neutron"), TRUE) >>
           [] clamped = 3 -> << highlightKind(a, "electron") >>
           [] OTHER       -> << a >>

\* the atom after the switch of gotoScene (atomIn is << >> or << atom >>)
SceneAtom(clamped, atomIn) ==
    IF atomIn = Null THEN Null
    ELSE LET a == ResetEmphasis(atomIn[1]) IN
         CASE clamped = 1 -> << animateProtons(highlightKind(a, "proton"), FALSE) >>
           [] clamped = 2 -> << animateNeutrons(highlightKind(a, "neutron"), FALSE) >>
           [] clamped = 3 -> << highlightKind(a, "electron") >>
           [] OTHER       -> << a >>

\* the panel text written by the switch of gotoScene
SceneContent(clamped, contentIn) ==
    CASE clamped = 0 -> "scene0"
      [] clamped = 1 -> "protons"
      [] clamped = 2 -> "neutrons"
      [] clamped = 3 -> "electrons"
      [] clamped = 5 -> "summary"
      [] OTHER       -> contentIn

\* the body of gotoScene past its placement guard; atomIn and contentIn are the
\* atom and the panel text at the time of the call
GotoSceneBody(index, atomIn, contentIn) ==
    LET clamped == Clamp(index) IN
    /\ sceneIndex' = clamped
    /\ sceneIndicator' = clamped + 1
    /\ challengeHidden' = (clamped # QuizScene)
    /\ atom' = SceneAtom(clamped, atomIn)
    /\ panelHidden' = (clamped = QuizScene)
    /\ panelContent' = SceneContent(clamped, contentIn)
    \* removeAtomInteraction, then setupAtomInteraction in scene 0
    /\ atomClickHandler' = (clamped = 0 /\ atomIn # Null)
    \* setupChallengeDnD -> setupQuizClickSelect in scene 4
    /\ IF clamped = QuizScene
       THEN /\ selectedAnswer' = Null
            /\ selectedCard' = Null
            /\ quizListeners' = Min(quizListeners + 1, MaxListeners)
       ELSE UNCHANGED <<selectedAnswer, selectedCard, quizListeners>>
    /\ UNCHANGED <<cardSelected, cardHidden, slotCorrect, slotIncorrect, slotLabel, quizStatus,
                   quizLog>>

\* variant: no placement guard
gotoSceneUnguarded(index) == GotoSceneBody(index, atom, panelContent)

\* WebARAtomApp.gotoScene(index)
gotoScene(index) ==
    IF ~atomPlaced
    THEN UNCHANGED <<sceneIndex, sceneIndicator, challengeHidden, atom, panelHidden,
                     panelContent, atomClickHandler, quizVars>>
    ELSE GotoSceneBody(index, atom, panelContent)

\* a direct request gotoScene(index)
GotoScene(index) ==
    /\ gotoScene(index)
    /\ Note("gotoScene", <<index>>)
    /\ UNCHANGED setupVars
    /\ UNCHANGED <<imVars, instances>>
    /\ UNCHANGED <<isARActive, atomPlaced, imAtom, hitVars, instructionsHidden, footerHidden, timers>>

\* click on #nextScene, once setupSceneControls has put its listener there
NextClick ==
    /\ sceneControls
    /\ gotoScene(sceneIndex + 1)
    /\ Note("next", Null)
    /\ UNCHANGED setupVars
    /\ UNCHANGED <<imVars, instances>>
    /\ UNCHANGED <<isARActive, atomPlaced, imAtom, hitVars, instructionsHidden, footerHidden, timers>>

\* click on #prevScene, once setupSceneControls has put its listener there
PrevClick ==
    /\ sceneControls
    /\ gotoScene(sceneIndex - 1)
    /\ Note("prev", Null)
    /\ UNCHANGED setupVars
    /\ UNCHANGED <<imVars, instances>>
    /\ UNCHANGED <<isARActive, atomPlaced, imAtom, hitVars, instructionsHidden, footerHidden, timers>>

----------------------------------------------------------------------------
(* Timers (setTimeout)                                                     *)

HighlightDelay == 1      \* 100 ms, showPartInfo
MatchDelay     == 5      \* 500 ms, animateCardToSlot
RevertDelay    == 20     \* 2000 ms, handleQuizClick

Timer(kind, delay, slot, card, answer) ==
    [kind |-> kind, delay |-> delay, left |-> delay, slot |-> slot, card |-> card,
     answer |-> answer]

\* a timer is due when its delay has elapsed and no timer with the same delay that
\* was scheduled before it is still pending
Due(i) ==
    /\ timers[i].left = 0
    /\ \A j \in 1..(i - 1) : timers[j].delay # timers[i].delay

\* time passes: d units, not beyond the next deadline
Tick(d) ==
    /\ timers # << >>
    /\ \A i \in 1..Len(timers) : timers[i].left >= d
    /\ timers' = [i \in 1..Len(timers) |-> [timers[i] EXCEPT !.left = @ - d]]
    /\ Note("tick", Null)
    /\ UNCHANGED setupVars
    /\ UNCHANGED <<imVars, instances>>
    /\ UNCHANGED <<appVars, hitVars, domVars, quizVars>>

----------------------------------------------------------------------------
(* The interaction manager at work on the atom it holds                    *)

\* the largest distance between two pointer or controller positions
MaxReach ==
    CHOOSE d \in {Abs(a - b) : a, b \in PinchXs \cup ControllerXs} :
        \A a, b \in PinchXs \cup ControllerXs : Abs(a - b) <= d

\* the transform of this.atom of the interaction manager: the placed atom, or the
\* disposed one of the session that ended
Target == IF atom # Null THEN <<Transform(atom[1])>> ELSE staleAtom

IMState == [im |-> im, t |-> Target, hasAtom |-> imAtom, ctl |-> controllers, now |-> now]

\* the handler state s is written back; a is the atom (<< >> or << atom >>) as the
\* rest of the running handler left it
SetIMOn(s, a) ==
    /\ im' = s.im
    /\ controllers' = s.ctl
    /\ IF a # Null
       THEN /\ atom' = <<[a[1] EXCEPT !.groupScale = s.t[1].groupScale,
                                      !.baseScale = s.t[1].baseScale,
                                      !.rotationY = s.t[1].rotationY,
                                      !.position = s.t[1].position]>>
            /\ UNCHANGED staleAtom
       ELSE /\ staleAtom' = s.t
            /\ UNCHANGED atom

SetIM(s) == SetIMOn(s, atom)

\* the gesture that the pointer id begins, or joins, stays within the yaw values
\* that are followed: a drag adds up to MaxReach hundredths, a twist a half turn
GestureInRange(id, hit) ==
    LET size == Len(SetPointer(im.activePointers, id, 0)) IN
    (imAtom /\ Target # Null) =>
        /\ (size = 1 /\ hit) => Abs(Target[1].rotationY.lin) + MaxReach <= MaxTurn
        /\ size = 2 => Abs(Target[1].rotationY.pi) + 1 <= MaxHalfTurns

----------------------------------------------------------------------------
(* Application shell: session lifecycle, placement, render loop            *)

\* the calls of init() behind the one that throws, made from outside once:
\* setupEventListeners (the resize listener only), setupEducationUI,
\* setupSceneControls, animate()
CompleteInit ==
    /\ ~sceneControls /\ ~animationLoop
    /\ panelHidden' = TRUE
    /\ panelContent' = "intro"
    /\ sceneControls' = TRUE
    /\ animationLoop' = TRUE
    /\ UNCHANGED touchListeners
    /\ lastEvent' = Event("completeInit", Null)
    /\ prev' = Snapshot
    /\ UNCHANGED <<imVars, instances>>
    /\ UNCHANGED <<appVars, hitVars, instructionsHidden, footerHidden, challengeHidden,
                   sceneIndicator, atomClickHandler, quizVars, timers>>

\* renderer.xr 'sessionstart' listener
SessionStart ==
    /\ ~isARActive
    /\ isARActive' = TRUE
    /\ instructionsHidden' = TRUE
    /\ endListener' = FALSE          \* a new XRSession object
    /\ Note("sessionstart", Null)
    /\ UNCHANGED setupVars
    /\ UNCHANGED <<imVars, instances>>
    /\ UNCHANGED <<atomPlaced, atom, sceneIndex, imAtom, reticleVisible, reticlePosition, hitTestSource,
                   hitTestSourceRequested, requestPending, panelHidden, panelContent,
                   footerHidden, challengeHidden, sceneIndicator, atomClickHandler,
                   quizVars, timers>>

\* variant: the atom is neither removed from the scene nor disposed
SessionEndKeepingAtom ==
    /\ isARActive
    /\ isARActive' = FALSE
    /\ atomPlaced' = FALSE
    /\ instructionsHidden' = FALSE
    /\ controllers' = [controllers EXCEPT !.selectHeld = {}, !.squeezeHeld = {}]
    /\ IF endListener
       THEN hitTestSourceRequested' = FALSE /\ hitTestSource' = FALSE
       ELSE UNCHANGED <<hitTestSourceRequested, hitTestSource>>
    /\ endListener' = FALSE
    /\ requestPending' = FALSE
    /\ Note("sessionend", Null)
    /\ UNCHANGED setupVars
    /\ UNCHANGED <<atom, staleAtom, instances, im, pointersDown, now, sceneIndex, imAtom,
                   reticleVisible, reticlePosition, panelHidden, panelContent, footerHidden, challengeHidden,
                   sceneIndicator, atomClickHandler, quizVars, timers>>

\* the session ends: renderer.xr 'sessionend' listener and, when handleHitTesting
\* registered it on this session, the session's 'end' listener
SessionEnd ==
    /\ isARActive
    /\ isARActive' = FALSE
    /\ atomPlaced' = FALSE
    /\ instructionsHidden' = FALSE
    /\ atom' = Null
    \* scene.remove(group) and atom.dispose(); the interaction manager keeps its atom
    /\ staleAtom' = IF atom # Null THEN <<Transform(atom[1])>> ELSE staleAtom
    /\ instances' = IF atom # Null
                    THEN [inScene |-> instances.inScene - 1,
                          undisposed |-> instances.undisposed
                                           - (IF atom[1].disposed THEN 0 ELSE 1)]
                    ELSE instances
    \* the input sources of the session are gone: no selectend or squeezeend follows
    /\ controllers' = [controllers EXCEPT !.selectHeld = {}, !.squeezeHeld = {}]
    /\ UNCHANGED <<im, pointersDown, now>>
    /\ IF endListener
       THEN hitTestSourceRequested' = FALSE /\ hitTestSource' = FALSE
       ELSE UNCHANGED <<hitTestSourceRequested, hitTestSource>>
    /\ endListener' = FALSE
    /\ requestPending' = FALSE       \* requests of an ended session are rejected
    /\ Note("sessionend", Null)
    /\ UNCHANGED setupVars
    /\ UNCHANGED <<sceneIndex, imAtom, reticleVisible, reticlePosition, panelHidden, panelContent,
                   footerHidden, challengeHidden, sceneIndicator, atomClickHandler,
                   quizVars, timers>>

\* variant: the placement re-enters the scene index it finds
placeAtomKeepingScene ==
    /\ imAtom' = TRUE
    /\ im' = setAtom(im)
    /\ staleAtom' = Null
    /\ instances' = [inScene |-> instances.inScene + 1,
                      undisposed |-> instances.undisposed + 1]
    /\ reticleVisible' = FALSE
    /\ atomPlaced' = TRUE
    /\ hitTestSource' = FALSE
    /\ hitTestSourceRequested' = FALSE
    /\ footerHidden' = FALSE
    /\ UNCHANGED reticlePosition
    /\ GotoSceneBody(sceneIndex, << [NewAtom EXCEPT !.groupScale = PlacementScale,
                                                      !.position = reticlePosition] >>,
                     panelContent)

\* WebARAtomApp.placeAtom(): the new atom stands where the reticle is
\* (position.setFromMatrixPosition(this.reticle.matrix)), at half scale
placeAtom ==
    LET fresh == [NewAtom EXCEPT !.groupScale = PlacementScale,
                                 !.position = reticlePosition] IN
    /\ imAtom' = TRUE
    /\ im' = setAtom(im)
    /\ staleAtom' = Null
    /\ instances' = [inScene |-> instances.inScene + 1,
                      undisposed |-> instances.undisposed + 1]
    /\ reticleVisible' = FALSE
    /\ atomPlaced' = TRUE
    /\ hitTestSource' = FALSE
    /\ hitTestSourceRequested' = FALSE
    /\ footerHidden' = FALSE
    /\ UNCHANGED reticlePosition
    \* gotoScene(0) runs with atomPlaced already true
    /\ GotoSceneBody(0, <<fresh>>, panelContent)

\* controller 'select' event: WebARAtomApp.onSelect()
Select ==
    /\ isARActive
    /\ IF reticleVisible /\ ~atomPlaced
       THEN placeAtom
       ELSE UNCHANGED <<imAtom, reticleVisible, reticlePosition, atomPlaced, hitTestSource,
                        hitTestSourceRequested, footerHidden, sceneIndex, sceneIndicator,
                        challengeHidden, atom, panelHidden, panelContent,
                        atomClickHandler, quizVars, im, staleAtom, instances>>
    /\ Note("select", Null)
    /\ UNCHANGED setupVars
    /\ UNCHANGED <<isARActive, requestPending, endListener, instructionsHidden, timers,
                   controllers, pointersDown, now>>

\* variant: the placement does not stop the surface tracking of the frame
handleHitTestingWhilePlaced(hits) ==
    IF ~isARActive
    THEN UNCHANGED hitVars
    ELSE /\ hitTestSourceRequested' = TRUE
         /\ requestPending' = (requestPending \/ ~hitTestSourceRequested)
         /\ endListener' = (endListener \/ ~hitTestSourceRequested)
         /\ reticleVisible' = IF ~hitTestSource THEN reticleVisible
                              ELSE IF hits.kind = "hit" THEN TRUE
                              ELSE IF hits.kind = "none" THEN FALSE
                              ELSE reticleVisible
         /\ reticlePosition' = IF hitTestSource /\ hits.kind = "hit" THEN hits.x
                               ELSE reticlePosition
         /\ UNCHANGED hitTestSource

\* WebARAtomApp.handleHitTesting(frame); the callback of the animation loop gets
\* an XRFrame while a session runs and undefined outside one. (animateReticle
\* scales the matrix of the reticle and leaves its position.)
handleHitTesting(hits) ==
    IF ~isARActive \/ atomPlaced
    THEN UNCHANGED hitVars
    ELSE /\ hitTestSourceRequested' = TRUE
         /\ requestPending' = (requestPending \/ ~hitTestSourceRequested)
         /\ endListener' = (endListener \/ ~hitTestSourceRequested)
         /\ reticleVisible' = IF ~hitTestSource THEN reticleVisible
                              ELSE IF hits.kind = "hit" THEN TRUE
                              ELSE IF hits.kind = "none" THEN FALSE
                              ELSE reticleVisible
         \* reticle.matrix.fromArray(pose.transform.matrix)
         /\ reticlePosition' = IF hitTestSource /\ hits.kind = "hit" THEN hits.x
                               ELSE reticlePosition
         /\ UNCHANGED hitTestSource

\* whether handleHitTesting reaches frame.getHitTestResults(hitTestSource)
QueriesSurface == isARActive /\ ~atomPlaced /\ hitTestSource

\* the calls of one render(), in the order of its statements
FrameSteps ==
    (IF atom # Null THEN <<"animate">> ELSE << >>)
        \o <<"gestures", "tracking", "reticle", "draw">>

\* the pulse scales a frame can compute: they matter only while the pulse runs
PulseInputs ==
    IF atom # Null /\ atom[1].protonsAnimating THEN PulseScales ELSE {EmphasisScale}

\* one animation frame: WebARAtomApp.render(timestamp, frame), the callback that
\* animate() hands to renderer.setAnimationLoop; it runs inside and outside a
\* session, and hits is what the XRFrame of a session would answer
Render(hits) ==
    /\ animationLoop
    /\ \E pulse \in PulseInputs :
          SetIMOn(update(IMState),
                  IF atom # Null THEN <<animate(atom[1], pulse)>> ELSE Null)
    /\ handleHitTesting(hits)
    /\ Note("render", <<[steps |-> FrameSteps, query |-> QueriesSurface]>>)
    /\ UNCHANGED setupVars
    /\ UNCHANGED <<isARActive, atomPlaced, sceneIndex, imAtom, domVars, quizVars, timers,
                   pointersDown, now, instances>>

\* the requestHitTestSource promise is fulfilled
HitTestSourceResolved ==
    /\ requestPending
    /\ requestPending' = FALSE
    /\ hitTestSource' = TRUE
    /\ Note("hitTestSource", <<"resolved">>)
    /\ UNCHANGED setupVars
    /\ UNCHANGED <<imVars, instances>>
    /\ UNCHANGED <<appVars, reticleVisible, reticlePosition, hitTestSourceRequested, endListener, domVars,
                   quizVars, timers>>

\* the requestHitTestSource promise is rejected (the catch only logs)
HitTestSourceRejected ==
    /\ requestPending
    /\ requestPending' = FALSE
    /\ Note("hitTestSource", <<"rejected">>)
    /\ UNCHANGED setupVars
    /\ UNCHANGED <<imVars, instances>>
    /\ UNCHANGED <<appVars, reticleVisible, reticlePosition, hitTestSource, hitTestSourceRequested,
                   endListener, domVars, quizVars, timers>>

----------------------------------------------------------------------------
(* Part selection (scene 0)                                                *)

\* WebARAtomApp.showPartInfo(part), reached from handlePartSelection in scene 0
showPartInfo(part) ==
    LET cleared == IF atom = Null THEN Null ELSE << clearHighlights(atom[1]) >> IN
    /\ panelContent' = CASE part = "nucleus" -> "nucleusInfo"
                          [] part \in {"electron", "orbit"} -> "electronInfo"
                          [] OTHER -> "intro"
    /\ atom' = IF cleared = Null THEN Null
               ELSE CASE part = "nucleus" -> << highlightKind(cleared[1], "proton") >>
                      [] part \in {"electron", "orbit"} -> << highlightKind(cleared[1], "electron") >>
                      [] OTHER -> cleared
    /\ timers' = IF part = "nucleus" /\ atom # Null
                 THEN Append(timers, Timer("highlightNeutron", HighlightDelay, "", "", ""))
                 ELSE timers

\* a direct call of WebARAtomApp.handlePartSelection(part): the subscription to
\* 'selectPart' that would call it is the statement of setupInteractions that
\* throws, and the interaction manager emits nothing
PartSelected(part) ==
    /\ (sceneIndex = 0 /\ part = "nucleus" /\ atom # Null) => Len(timers) < MaxHighlightTimers
    /\ IF sceneIndex = 0
       THEN showPartInfo(part)
       ELSE UNCHANGED <<panelContent, atom, timers>>
    /\ Note("selectPart", Null)
    /\ UNCHANGED setupVars
    /\ UNCHANGED <<imVars, instances>>
    /\ UNCHANGED <<isARActive, atomPlaced, sceneIndex, imAtom, hitVars, instructionsHidden,
                   panelHidden, footerHidden, challengeHidden, sceneIndicator,
                   atomClickHandler, quizVars>>

\* the 100 ms callback of showPartInfo('nucleus')
HighlightNeutronTimer(i) ==
    /\ i \in 1..Len(timers)
    /\ timers[i].kind = "highlightNeutron"
    /\ Due(i)
    /\ timers' = RemoveAt(timers, i)
    /\ atom' = IF atom = Null THEN Null ELSE << highlightKind(atom[1], "neutron") >>
    /\ Note("highlightNeutronTimer", Null)
    /\ UNCHANGED setupVars
    /\ UNCHANGED <<imVars, instances>>
    /\ UNCHANGED <<isARActive, atomPlaced, sceneIndex, imAtom, hitVars, domVars, quizVars>>

----------------------------------------------------------------------------
(* Clicks on the canvas (scene 0)                                          *)

RestoreDelay == 20       \* 2000 ms, handleEmptySpaceClick and animateElectronMovement
SpeedUp == 3             \* electron.userData.speed *= 3

\* what the ray of a click meets first: a nucleus particle, an electron, an orbit
\* ring, a mesh without a part tag (the glow shells), or nothing
ClickTargets == {"nucleus", "electron", "orbit", "other", "none"}

\* the forEach of WebARAtomApp.animateElectronMovement() on the atom
animateElectronMovement(a) ==
    [a EXCEPT !.electronOriginalSpeed = <<a.electronSpeed>>,
              !.electronSpeed = @ * SpeedUp]

\* the forEach of the 2000 ms callback of animateElectronMovement
restoreElectronSpeed(a) ==
    [a EXCEPT !.electronSpeed = IF a.electronOriginalSpeed # Null
                                THEN a.electronOriginalSpeed[1] ELSE @]

\* WebARAtomApp.handleAtomPartClick(clickedObject); the shake of the nucleus group
\* (animateNucleusVibration) moves no field that is followed
handleAtomPartClick(target) ==
    CASE target = "nucleus" ->
            /\ panelContent' = "nucleusClick"
            /\ UNCHANGED <<atom, timers>>
      [] target \in {"electron", "orbit"} ->
            /\ panelContent' = "electronClick"
            /\ atom' = <<animateElectronMovement(atom[1])>>
            /\ timers' = Append(timers, Timer("speedRestore", RestoreDelay, "", "", ""))
      [] OTHER -> UNCHANGED <<panelContent, atom, timers>>

\* WebARAtomApp.handleEmptySpaceClick()
handleEmptySpaceClick ==
    /\ panelContent' = "warning"
    /\ timers' = Append(timers, Timer("panelRestore", RestoreDelay, "", "", ""))
    /\ UNCHANGED atom

\* 'click' on the canvas while the listener of setupAtomInteraction is registered:
\* WebARAtomApp.handleAtomClick(event)
AtomClick(target) ==
    /\ atomClickHandler
    /\ Len(timers) < MaxClickTimers
    /\ atom # Null => atom[1].electronSpeed * SpeedUp <= MaxSpeed
    /\ IF sceneIndex # 0 \/ atom = Null
       THEN UNCHANGED <<panelContent, atom, timers>>
       ELSE IF target = "none" THEN handleEmptySpaceClick
            ELSE handleAtomPartClick(target)
    /\ Note("atomClick", <<target>>)
    /\ UNCHANGED setupVars
    /\ UNCHANGED <<imVars, instances>>
    /\ UNCHANGED <<isARActive, atomPlaced, sceneIndex, imAtom, hitVars, instructionsHidden,
                   panelHidden, footerHidden, challengeHidden, sceneIndicator,
                   atomClickHandler, quizVars>>

\* the 2000 ms callback of handleEmptySpaceClick
PanelRestoreTimer(i) ==
    /\ i \in 1..Len(timers)
    /\ timers[i].kind = "panelRestore"
    /\ Due(i)
    /\ timers' = RemoveAt(timers, i)
    /\ panelContent' = "scene0"
    /\ Note("panelRestoreTimer", Null)
    /\ UNCHANGED setupVars
    /\ UNCHANGED <<imVars, instances>>
    /\ UNCHANGED <<appVars, hitVars, instructionsHidden, panelHidden, footerHidden,
                   challengeHidden, sceneIndicator, atomClickHandler, quizVars>>

\* the 2000 ms callback of animateElectronMovement
SpeedRestoreTimer(i) ==
    /\ i \in 1..Len(timers)
    /\ timers[i].kind = "speedRestore"
    /\ Due(i)
    /\ timers' = RemoveAt(timers, i)
    /\ atom' = IF atom = Null THEN Null ELSE <<restoreElectronSpeed(atom[1])>>
    /\ Note("speedRestoreTimer", Null)
    /\ UNCHANGED setupVars
    /\ UNCHANGED <<imVars, instances>>
    /\ UNCHANGED <<isARActive, atomPlaced, sceneIndex, imAtom, hitVars, domVars, quizVars>>

----------------------------------------------------------------------------
(* Quiz / matching mini-game                                               *)

\* the quiz state the click listeners read and write
QuizState ==
    [sceneIndex |-> sceneIndex,
     selectedAnswer |-> selectedAnswer, selectedCard |-> selectedCard,
     cardSelected |-> cardSelected, cardHidden |-> cardHidden,
     slotCorrect |-> slotCorrect, slotIncorrect |-> slotIncorrect,
     slotLabel |-> slotLabel, quizStatus |-> quizStatus, timers |-> timers,
     log |-> quizLog]

\* variant: the message is shown one slot early
checkQuizCompletionEarly(q) ==
    IF Cardinality({t \in Slots : q.slotCorrect[t]}) >= Cardinality(Slots) - 1
    THEN [q EXCEPT !.quizStatus = <<"complete">>,
                   !.log.shown = Min(@ + 1, MaxShown)]
    ELSE q

\* WebARAtomApp.checkQuizCompletion()
checkQuizCompletion(q) ==
    IF Cardinality({t \in Slots : q.slotCorrect[t]}) = Cardinality(Slots)
    THEN [q EXCEPT !.quizStatus = <<"complete">>,
                   !.log.shown = Min(@ + 1, MaxShown)]
    ELSE q

\* the callback handleQuizClick hands to animateCardToSlot
MatchCallback(q, slot, card, answerType) ==
    checkQuizCompletion(
        [q EXCEPT !.slotCorrect[slot] = TRUE,
                  !.slotIncorrect[slot] = FALSE,
                  !.slotLabel[slot] = <<answerType>>,
                  !.cardHidden[card] = TRUE,
                  !.quizStatus = <<"success", answerType>>])

\* the match of this card has been accepted: it is hidden or on its way to a slot
Accepted(q, card) ==
    \/ q.cardHidden[card]
    \/ \E i \in 1..Len(q.timers) : q.timers[i].kind = "quizMatch" /\ q.timers[i].card = card

\* variant: a mismatch consumes the card
handleQuizClickConsuming(q, answerType, targetType, slot, card) ==
    IF q.sceneIndex # QuizScene THEN q
    ELSE LET cleared == [q EXCEPT !.cardSelected[card] = FALSE,
                                  !.selectedAnswer = Null,
                                  !.selectedCard = Null,
                                  !.log.strayed = @ \/ answerType # slot \/ Accepted(q, card)]
         IN  IF answerType = targetType
             THEN [cleared EXCEPT
                     !.timers = Append(@, Timer("quizMatch", MatchDelay, slot, card, answerType))]
             ELSE [cleared EXCEPT
                     !.slotIncorrect[slot] = TRUE,
                     !.slotCorrect[slot] = FALSE,
                     !.cardHidden[card] = TRUE,
                     !.quizStatus = <<"retry", answerType>>,
                     !.timers = Append(@, Timer("quizRevert", RevertDelay, slot, "", ""))]

\* WebARAtomApp.handleQuizClick(answerType, targetType, slot, card)
handleQuizClick(q, answerType, targetType, slot, card) ==
    IF q.sceneIndex # QuizScene THEN q
    ELSE LET cleared == [q EXCEPT !.cardSelected[card] = FALSE,
                                  !.selectedAnswer = Null,
                                  !.selectedCard = Null,
                                  !.log.strayed = @ \/ answerType # slot \/ Accepted(q, card)]
         IN  IF answerType = targetType
             THEN [cleared EXCEPT
                     !.timers = Append(@, Timer("quizMatch", MatchDelay, slot, card, answerType))]
             ELSE [cleared EXCEPT
                     !.slotIncorrect[slot] = TRUE,
                     !.slotCorrect[slot] = FALSE,
                     !.quizStatus = <<"retry", answerType>>,
                     !.timers = Append(@, Timer("quizRevert", RevertDelay, slot, "", ""))]

\* variant: a slot clicked with nothing selected is marked incorrect
SlotListenerMarking(q, slot) ==
    IF q.selectedAnswer = Null \/ q.selectedCard = Null
    THEN [q EXCEPT !.quizStatus = <<"selectFirst">>, !.slotIncorrect[slot] = TRUE]
    ELSE handleQuizClick(q, q.selectedAnswer[1], slot, slot, q.selectedCard[1])

\* one click listener of a drop slot (setupQuizClickSelect)
SlotListener(q, slot) ==
    IF q.selectedAnswer = Null \/ q.selectedCard = Null
    THEN [q EXCEPT !.quizStatus = <<"selectFirst">>]
    ELSE handleQuizClick(q, q.selectedAnswer[1], slot, slot, q.selectedCard[1])

\* variant: the other cards keep their selected mark
CardListenerAdditive(q, card) ==
    [q EXCEPT !.cardSelected[card] = TRUE,
              !.selectedAnswer = <<card>>,
              !.selectedCard = <<card>>,
              !.quizStatus = <<"selected", card>>]

\* one click listener of an answer card (setupQuizClickSelect)
CardListener(q, card) ==
    [q EXCEPT !.cardSelected = [c \in Cards |-> c = card],
              !.selectedAnswer = <<card>>,
              !.selectedCard = <<card>>,
              !.quizStatus = <<"selected", card>>]

\* a click event runs every listener installed on the element, in order
RECURSIVE Dispatch(_, _, _, _)
Dispatch(q, n, target, isSlot) ==
    IF n = 0 THEN q
    ELSE Dispatch(IF isSlot THEN SlotListener(q, target) ELSE CardListener(q, target),
                  n - 1, target, isSlot)

SetQuiz(q) ==
    /\ selectedAnswer' = q.selectedAnswer
    /\ selectedCard' = q.selectedCard
    /\ cardSelected' = q.cardSelected
    /\ cardHidden' = q.cardHidden
    /\ slotCorrect' = q.slotCorrect
    /\ slotIncorrect' = q.slotIncorrect
    /\ slotLabel' = q.slotLabel
    /\ quizStatus' = q.quizStatus
    /\ timers' = q.timers
    /\ quizLog' = q.log
    /\ UNCHANGED quizListeners

\* the user clicks an answer card of the visible quiz overlay
CardClick(card) ==
    /\ ~challengeHidden
    /\ ~cardHidden[card]
    /\ quizListeners > 0
    /\ SetQuiz(Dispatch(QuizState, quizListeners, card, FALSE))
    /\ Note("cardClick", <<card>>)
    /\ UNCHANGED setupVars
    /\ UNCHANGED <<imVars, instances>>
    /\ UNCHANGED <<appVars, hitVars, domVars>>

\* the user clicks a drop slot of the visible quiz overlay
SlotClick(slot) ==
    /\ ~challengeHidden
    /\ quizListeners > 0
    /\ Len(timers) < MaxQuizTimers
    /\ SetQuiz(Dispatch(QuizState, quizListeners, slot, TRUE))
    /\ Note("slotClick", <<slot>>)
    /\ UNCHANGED setupVars
    /\ UNCHANGED <<imVars, instances>>
    /\ UNCHANGED <<appVars, hitVars, domVars>>

\* the 500 ms callback of animateCardToSlot
MatchTimer(i) ==
    /\ i \in 1..Len(timers)
    /\ timers[i].kind = "quizMatch"
    /\ Due(i)
    /\ SetQuiz(MatchCallback([QuizState EXCEPT !.timers = RemoveAt(timers, i)],
                             timers[i].slot, timers[i].card, timers[i].answer))
    /\ Note("matchTimer", <<timers[i].slot, timers[i].card>>)
    /\ UNCHANGED setupVars
    /\ UNCHANGED <<imVars, instances>>
    /\ UNCHANGED <<appVars, hitVars, domVars>>

\* the 2000 ms callback of the mismatch branch of handleQuizClick
RevertTimer(i) ==
    /\ i \in 1..Len(timers)
    /\ timers[i].kind = "quizRevert"
    /\ Due(i)
    /\ SetQuiz([QuizState EXCEPT !.timers = RemoveAt(timers, i),
                                 !.slotIncorrect[timers[i].slot] = FALSE,
                                 !.slotLabel[timers[i].slot] = Null])
    /\ Note("revertTimer", <<timers[i].slot>>)
    /\ UNCHANGED setupVars
    /\ UNCHANGED <<imVars, instances>>
    /\ UNCHANGED <<appVars, hitVars, domVars>>

----------------------------------------------------------------------------
(* Pointer and controller events                                           *)

\* pointer events: the listeners of setupTouchEvents
PointerDown(id, x, hit) ==
    /\ touchListeners
    /\ id \notin pointersDown
    /\ GestureInRange(id, hit)
    /\ pointersDown' = pointersDown \cup {id}
    /\ SetIM(onPointerDown(IMState, id, x, hit))
    /\ Note("pointerDown", Null)
    /\ UNCHANGED setupVars
    /\ UNCHANGED <<isARActive, atomPlaced, sceneIndex, imAtom, hitVars, domVars, quizVars,
                   timers, now, instances>>

PointerMove(id, x) ==
    /\ touchListeners
    /\ SetIM(onPointerMove(IMState, id, x))
    /\ Note("pointerMove", <<HasPointer(im.activePointers, id)>>)
    /\ UNCHANGED setupVars
    /\ UNCHANGED <<isARActive, atomPlaced, sceneIndex, imAtom, hitVars, domVars, quizVars,
                   timers, pointersDown, now, instances>>

\* pointerup or pointercancel: the pointer is gone
PointerUp(id, x, hit) ==
    /\ touchListeners
    /\ id \in pointersDown
    /\ pointersDown' = pointersDown \ {id}
    /\ SetIM(onPointerUp(IMState, id, x, hit))
    /\ Note("pointerUp", Null)
    /\ UNCHANGED setupVars
    /\ UNCHANGED <<isARActive, atomPlaced, sceneIndex, imAtom, hitVars, domVars, quizVars,
                   timers, now, instances>>

\* pointerout or pointerleave: the same listener, the pointer may stay down
PointerOut(id, x, hit) ==
    /\ touchListeners
    /\ SetIM(onPointerUp(IMState, id, x, hit))
    /\ Note("pointerOut", Null)
    /\ UNCHANGED setupVars
    /\ UNCHANGED <<isARActive, atomPlaced, sceneIndex, imAtom, hitVars, domVars, quizVars,
                   timers, pointersDown, now, instances>>

\* the 2500 ms callback of showInfo
ToastTimeout ==
    /\ im.toastTimer
    /\ im' = [im EXCEPT !.toast = Null, !.toastTimer = FALSE]
    /\ Note("toastTimeout", Null)
    /\ UNCHANGED setupVars
    /\ UNCHANGED <<appVars, hitVars, domVars, quizVars, timers, controllers, pointersDown,
                   now, staleAtom, instances>>

\* time passes between two events
Elapse(d) ==
    /\ now + d <= 1 + MaxElapsed
    /\ now' = now + d
    /\ Note("elapse", Null)
    /\ UNCHANGED setupVars
    /\ UNCHANGED <<appVars, hitVars, domVars, quizVars, timers, im, controllers,
                   pointersDown, staleAtom, instances>>

\* the XR device moves a controller
ControllerMove(c, x) ==
    /\ isARActive
    /\ controllers.pos[c] # x
    /\ controllers' = [controllers EXCEPT !.pos[c] = x]
    /\ Note("controllerMove", Null)
    /\ UNCHANGED setupVars
    /\ UNCHANGED <<appVars, hitVars, domVars, quizVars, timers, im, pointersDown, now,
                   staleAtom, instances>>

\* controller events: the listeners of setupControllers
ControllerSelectStart(c, hit) ==
    /\ isARActive
    /\ c \notin controllers.selectHeld
    /\ (imAtom /\ hit) => Abs(Target[1].position) + MaxReach <= MaxPosition
    /\ LET s == onControllerSelectStart(IMState, c, hit)
       IN SetIM([s EXCEPT !.ctl.selectHeld = @ \cup {c}])
    /\ Note("selectstart", <<c, hit>>)
    /\ UNCHANGED setupVars
    /\ UNCHANGED <<isARActive, atomPlaced, sceneIndex, imAtom, hitVars, domVars, quizVars,
                   timers, pointersDown, now, instances>>

ControllerSelectEnd(c) ==
    /\ isARActive
    /\ c \in controllers.selectHeld
    /\ LET s == onControllerSelectEnd(IMState, c)
       IN SetIM([s EXCEPT !.ctl.selectHeld = @ \ {c}])
    /\ Note("selectend", <<c>>)
    /\ UNCHANGED setupVars
    /\ UNCHANGED <<isARActive, atomPlaced, sceneIndex, imAtom, hitVars, domVars, quizVars,
                   timers, pointersDown, now, instances>>

ControllerSqueezeStart(c) ==
    /\ isARActive
    /\ c \notin controllers.squeezeHeld
    /\ Len(im.scalingControllers) < MaxSqueezes
    /\ LET s == onControllerSqueezeStart(IMState, c)
       IN SetIM([s EXCEPT !.ctl.squeezeHeld = @ \cup {c}])
    /\ Note("squeezestart", Null)
    /\ UNCHANGED setupVars
    /\ UNCHANGED <<isARActive, atomPlaced, sceneIndex, imAtom, hitVars, domVars, quizVars,
                   timers, pointersDown, now, instances>>

ControllerSqueezeEnd(c) ==
    /\ isARActive
    /\ c \in controllers.squeezeHeld
    /\ LET s == onControllerSqueezeEnd(IMState, c)
       IN SetIM([s EXCEPT !.ctl.squeezeHeld = @ \ {c}])
    /\ Note("squeezeend", Null)
    /\ UNCHANGED setupVars
    /\ UNCHANGED <<isARActive, atomPlaced, sceneIndex, imAtom, hitVars, domVars, quizVars,
                   timers, pointersDown, now, instances>>

\* a call of InteractionManager.scaleAtom(num / den)
ScaleAtom(num, den) ==
    /\ SetIM(scaleAtom(IMState, num, den))
    /\ Note("scaleAtom", <<num, den>>)
    /\ UNCHANGED setupVars
    /\ UNCHANGED <<isARActive, atomPlaced, sceneIndex, imAtom, hitVars, domVars, quizVars,
                   timers, pointersDown, now, instances>>


----------------------------------------------------------------------------
(* Public methods that no listener and no other method of the app calls,   *)
(* as direct calls                                                         *)

\* WebARAtomApp.dispose() (the beforeunload listener looks for window.webARApp,
\* which nothing sets): InteractionManager.dispose() and AtomModel.dispose(),
\* which removes the drop zones before it disposes the geometries and materials
Dispose ==
    /\ touchListeners' = FALSE
    /\ atom' = IF atom = Null THEN Null
               ELSE <<[atom[1] EXCEPT !.dropZones = 0, !.disposed = TRUE]>>
    /\ instances' = IF atom # Null /\ ~atom[1].disposed
                    THEN [instances EXCEPT !.undisposed = @ - 1]
                    ELSE instances
    /\ lastEvent' = Event("dispose", Null)
    /\ prev' = Snapshot
    /\ UNCHANGED <<sceneControls, animationLoop, imVars>>
    /\ UNCHANGED <<isARActive, atomPlaced, sceneIndex, imAtom, hitVars, domVars, quizVars,
                   timers>>

\* WebARAtomApp.updateEducationText(part)
UpdateEducationText(part) ==
    /\ (sceneIndex # 0 /\ part = "nucleus" /\ atom # Null) => Len(timers) < MaxHighlightTimers
    /\ IF sceneIndex # 0
       THEN showPartInfo(part)
       ELSE UNCHANGED <<panelContent, atom, timers>>
    /\ Note("updateEducationText", <<part>>)
    /\ UNCHANGED setupVars
    /\ UNCHANGED <<imVars, instances>>
    /\ UNCHANGED <<isARActive, atomPlaced, sceneIndex, imAtom, hitVars, instructionsHidden,
                   panelHidden, footerHidden, challengeHidden, sceneIndicator,
                   atomClickHandler, quizVars>>

\* WebARAtomApp.handleQuizDrop(answerType, targetType, slot); the card is the
\* element that carries data-answer = answerType
QuizDrop(answerType, targetType, slot) ==
    /\ Len(timers) < MaxQuizTimers
    /\ SetQuiz(handleQuizClick(QuizState, answerType, targetType, slot, answerType))
    /\ Note("quizDrop", Null)
    /\ UNCHANGED setupVars
    /\ UNCHANGED <<imVars, instances>>
    /\ UNCHANGED <<appVars, hitVars, domVars>>

\* AtomModel.fadeExcept(targetObject) on the placed atom
FadeExcept(target) ==
    /\ atom # Null
    /\ atom' = <<fadeExcept(atom[1], target)>>
    /\ Note("fadeExcept", <<target>>)
    /\ UNCHANGED setupVars
    /\ UNCHANGED <<imVars, instances>>
    /\ UNCHANGED <<isARActive, atomPlaced, sceneIndex, imAtom, hitVars, domVars, quizVars,
                   timers>>

\* AtomModel.enableChallengeMode() on the placed atom; every call adds three
\* more drop zones to the ones it finds
EnableChallengeMode ==
    /\ atom # Null
    /\ atom[1].dropZones + DropZoneCount <= MaxDropZones
    /\ atom' = <<enableChallengeMode(atom[1])>>
    /\ Note("enableChallengeMode", Null)
    /\ UNCHANGED setupVars
    /\ UNCHANGED <<imVars, instances>>
    /\ UNCHANGED <<isARActive, atomPlaced, sceneIndex, imAtom, hitVars, domVars, quizVars,
                   timers>>

\* AtomModel.disableChallengeMode() on the placed atom
DisableChallengeMode ==
    /\ atom # Null
    /\ atom' = <<disableChallengeMode(atom[1])>>
    /\ Note("disableChallengeMode", Null)
    /\ UNCHANGED setupVars
    /\ UNCHANGED <<imVars, instances>>
    /\ UNCHANGED <<isARActive, atomPlaced, sceneIndex, imAtom, hitVars, domVars, quizVars,
                   timers>>

\* a call of InteractionManager.resetAtom()
ResetAtom ==
    /\ SetIM(IF ~imAtom THEN IMState
             ELSE [IMState EXCEPT !.t = <<[setScale(IMState.t[1], UnitScale)
                                             EXCEPT !.position = 0]>>])
    /\ Note("resetAtom", Null)
    /\ UNCHANGED setupVars
    /\ UNCHANGED <<isARActive, atomPlaced, sceneIndex, imAtom, hitVars, domVars, quizVars,
                   timers, pointersDown, now, instances>>

\* a call of AtomModel.animateProtons() on the placed atom, with the default
\* argument: the pulse is on
AnimateProtons ==
    /\ atom # Null
    /\ atom' = <<animateProtons(atom[1], TRUE)>>
    /\ Note("animateProtons", Null)
    /\ UNCHANGED setupVars
    /\ UNCHANGED <<imVars, instances>>
    /\ UNCHANGED <<isARActive, atomPlaced, sceneIndex, imAtom, hitVars, domVars, quizVars,
                   timers>>

\* InteractionManager.onCardDragStart(e) on the card with data-key = key: the
\* 'dragstart' listener that setupChallengeDrag gives the cards of #cardsRow
\* when the page has that element (the markup is not part of the sources)
CardDragStart(key) ==
    /\ im' = [im EXCEPT !.draggingEl = <<key>>]
    /\ Note("cardDragStart", Null)
    /\ UNCHANGED setupVars
    /\ UNCHANGED <<appVars, hitVars, domVars, quizVars, timers, controllers, pointersDown,
                   now, staleAtom, instances>>

\* InteractionManager.onCardDragEnd(e)
CardDragEnd ==
    /\ im' = [im EXCEPT !.draggingEl = Null]
    /\ Note("cardDragEnd", Null)
    /\ UNCHANGED setupVars
    /\ UNCHANGED <<appVars, hitVars, domVars, quizVars, timers, controllers, pointersDown,
                   now, staleAtom, instances>>

\* InteractionManager.onCardDrop(e, target) on the target with data-accept =
\* accept. (After a right drop the handler counts the cards left in #cardsRow
\* and may show #summaryPanel, or throws where the page has no #cardsRow; the
\* text of the target and the summary panel are not followed.)
CardDrop(accept) ==
    /\ IF im.draggingEl = Null
       THEN UNCHANGED im
       ELSE LET key == im.draggingEl[1]
                isCorrect == \/ key = "proton" /\ accept = "nucleus"
                             \/ key = "neutron" /\ accept = "nucleus"
                             \/ key = "electron" /\ accept = "electron-shell"
            IN IF isCorrect
               THEN im' = showInfo([im EXCEPT !.targetMark[accept] = "ok",
                                              !.cardsHidden = @ \cup {key}],
                                   "wellDone")
               ELSE /\ im.badPending[accept] < MaxBadTimers
                    /\ im' = showInfo([im EXCEPT !.targetMark[accept] = "bad",
                                                 !.badPending[accept] = @ + 1],
                                      "thinkAgain")
    /\ Note("cardDrop", Null)
    /\ UNCHANGED setupVars
    /\ UNCHANGED <<appVars, hitVars, domVars, quizVars, timers, controllers, pointersDown,
                   now, staleAtom, instances>>

\* one of the 500 ms callbacks of the wrong drops on a target:
\* target.classList.remove('bad'); every wrong drop schedules its own
BadMarkTimeout(accept) ==
    /\ im.badPending[accept] > 0
    /\ im' = [im EXCEPT !.targetMark[accept] = IF @ = "bad" THEN "none" ELSE @,
                        !.badPending[accept] = @ - 1]
    /\ Note("badMarkTimeout", Null)
    /\ UNCHANGED setupVars
    /\ UNCHANGED <<appVars, hitVars, domVars, quizVars, timers, controllers, pointersDown,
                   now, staleAtom, instances>>

----------------------------------------------------------------------------
(* Specifications                                                          *)

\* lifecycle, frames, placement and scene navigation: the events that the app
\* has listeners for
Next ==
    \/ CompleteInit
    \/ SessionStart
    \/ SessionEnd
    \/ \E hits \in HitInputs : Render(hits)
    \/ HitTestSourceResolved
    \/ HitTestSourceRejected
    \/ Select
    \/ \E index \in (FirstScene - MaxOvershoot)..(LastScene + MaxOvershoot) : GotoScene(index)
    \/ NextClick
    \/ PrevClick

Spec == Init /\ [][Next]_vars

\* the first placement of the first session has just happened
InitScenes ==
    /\ isARActive = TRUE
    /\ atomPlaced = TRUE
    /\ atom = SceneAtom(FirstScene, << [NewAtom EXCEPT !.groupScale = PlacementScale] >>)
    /\ sceneIndex = FirstScene
    /\ reticleVisible = FALSE
    /\ reticlePosition = 0
    /\ hitTestSource = FALSE
    /\ hitTestSourceRequested = FALSE
    /\ requestPending = FALSE
    /\ endListener = TRUE
    /\ imAtom = TRUE
    /\ sceneControls = TRUE
    /\ animationLoop = TRUE
    /\ touchListeners = TRUE
    /\ instructionsHidden = TRUE
    /\ panelHidden = FALSE
    /\ panelContent = "scene0"
    /\ footerHidden = FALSE
    /\ challengeHidden = TRUE
    /\ sceneIndicator = FirstScene + 1
    /\ atomClickHandler = TRUE
    /\ selectedAnswer = Null
    /\ selectedCard = Null
    /\ cardSelected = [c \in Cards |-> FALSE]
    /\ cardHidden = [c \in Cards |-> FALSE]
    /\ slotCorrect = [t \in Slots |-> FALSE]
    /\ slotIncorrect = [t \in Slots |-> FALSE]
    /\ slotLabel = [t \in Slots |-> Null]
    /\ quizStatus = <<"initial">>
    /\ quizListeners = 0
    /\ quizLog = [shown |-> 0, strayed |-> FALSE]
    /\ timers = << >>
    /\ im = setAtom(NewInteractionManager)
    /\ controllers = NewControllers
    /\ pointersDown = {}
    /\ now = 1
    /\ staleAtom = Null
    /\ instances = [inScene |-> 1, undisposed |-> 1]
    /\ lastEvent = Event("select", Null)
    /\ prev = [sceneIndex |-> FirstScene, atomPlaced |-> FALSE]

\* one session with the atom placed: scene requests and part selection
NextScenes ==
    \/ \E index \in (FirstScene - MaxOvershoot)..(LastScene + MaxOvershoot) : GotoScene(index)
    \/ NextClick
    \/ PrevClick
    \/ \E part \in PartInputs : PartSelected(part)
    \/ \E i \in 1..MaxHighlightTimers : HighlightNeutronTimer(i)
    \/ Tick(HighlightDelay)

SpecScenes == InitScenes /\ [][NextScenes]_vars

ClickTicks == {RestoreDelay \div 2}

\* clicks on the canvas and scene requests after a placement, with their timers
NextClicks ==
    \/ \E target \in ClickTargets : AtomClick(target)
    \/ \E i \in 1..MaxClickTimers : PanelRestoreTimer(i)
    \/ \E i \in 1..MaxClickTimers : SpeedRestoreTimer(i)
    \/ \E d \in ClickTicks : Tick(d)
    \/ NextClick
    \/ PrevClick

SpecClicks == InitScenes /\ [][NextClicks]_vars

\* the methods that nothing calls, called on a placed atom between scene requests
NextCalls ==
    \/ Dispose
    \/ \E part \in PartInputs : UpdateEducationText(part)
    \/ \E target \in FadeTargets : FadeExcept(target)
    \/ EnableChallengeMode
    \/ DisableChallengeMode
    \/ \E i \in 1..MaxHighlightTimers : HighlightNeutronTimer(i)
    \/ Tick(HighlightDelay)
    \/ NextClick
    \/ SessionEnd

SpecCalls == InitScenes /\ [][NextCalls]_vars

\* resetAtom() and animateProtons(), called while a controller drags the placed
\* atom, frame by frame, in a session and after it
NextReset ==
    \/ ResetAtom
    \/ AnimateProtons
    \/ \E c \in Controllers, x \in ControllerXs : ControllerMove(c, x)
    \/ \E c \in Controllers, hit \in BOOLEAN : ControllerSelectStart(c, hit)
    \/ \E hits \in HitInputs : Render(hits)
    \/ SessionEnd

SpecReset == InitScenes /\ [][NextReset]_vars

\* the drag and drop handlers of the challenge cards, called on a placed atom
NextCards ==
    \/ \E key \in Kinds : CardDragStart(key)
    \/ CardDragEnd
    \/ \E accept \in DropAccepts : CardDrop(accept)
    \/ \E accept \in DropAccepts : BadMarkTimeout(accept)
    \/ ToastTimeout

SpecCards == InitScenes /\ [][NextCards]_vars

\* the atom after its placement and a walk through scenes 0, 1, 2, 3 into scene 4
AtomInQuizScene ==
    SceneAtom(4, SceneAtom(3, SceneAtom(2, SceneAtom(1,
        SceneAtom(0, << [NewAtom EXCEPT !.groupScale = PlacementScale] >>)))))

\* the quiz scene has just been entered: for the first time by the next button
\* from scene 3 (one listener per element), or again by the previous button from
\* scene 5 with the quiz untouched in between (one more listener per entry)
InitQuiz ==
    /\ isARActive = TRUE
    /\ atomPlaced = TRUE
    /\ atom = AtomInQuizScene
    /\ sceneIndex = QuizScene
    /\ reticleVisible = FALSE
    /\ reticlePosition = 0
    /\ hitTestSource = FALSE
    /\ hitTestSourceRequested = FALSE
    /\ requestPending = FALSE
    /\ endListener = TRUE
    /\ imAtom = TRUE
    /\ sceneControls = TRUE
    /\ animationLoop = TRUE
    /\ touchListeners = TRUE
    /\ instructionsHidden = TRUE
    /\ panelHidden = TRUE
    /\ footerHidden = FALSE
    /\ challengeHidden = FALSE
    /\ sceneIndicator = QuizScene + 1
    /\ atomClickHandler = FALSE
    /\ selectedAnswer = Null
    /\ selectedCard = Null
    /\ cardSelected = [c \in Cards |-> FALSE]
    /\ cardHidden = [c \in Cards |-> FALSE]
    /\ slotCorrect = [t \in Slots |-> FALSE]
    /\ slotIncorrect = [t \in Slots |-> FALSE]
    /\ slotLabel = [t \in Slots |-> Null]
    /\ quizStatus = <<"initial">>
    /\ timers = << >>
    /\ im = setAtom(NewInteractionManager)
    /\ controllers = NewControllers
    /\ pointersDown = {}
    /\ now = 1
    /\ staleAtom = Null
    /\ instances = [inScene |-> 1, undisposed |-> 1]
    /\ quizListeners \in 1..MaxListeners
    /\ quizLog = [shown |-> 0, strayed |-> FALSE]
    /\ panelContent = IF quizListeners = 1 THEN "electrons" ELSE "summary"
    /\ lastEvent = IF quizListeners = 1 THEN Event("next", Null) ELSE Event("prev", Null)
    /\ prev = [sceneIndex |-> IF quizListeners = 1 THEN QuizScene - 1 ELSE QuizScene + 1,
               atomPlaced |-> TRUE]

\* the quiz while its scene is shown: clicks, deferred callbacks and time
NextQuiz ==
    \/ \E card \in Cards : CardClick(card)
    \/ \E slot \in Slots : SlotClick(slot)
    \/ \E i \in 1..MaxQuizTimers : MatchTimer(i)
    \/ \E i \in 1..MaxQuizTimers : RevertTimer(i)
    \/ Tick(MatchDelay)

SpecQuiz == InitQuiz /\ [][NextQuiz]_vars

\* the quiz, left by the next button for the summary scene and entered again by
\* a request for scene 4
NextQuizVisit ==
    \/ NextQuiz
    \/ NextClick
    \/ GotoScene(QuizScene)

\* scene 4 entered for the first time
InitQuizVisit == InitQuiz /\ quizListeners = 1

SpecQuizVisit == InitQuizVisit /\ [][NextQuizVisit]_vars

DropAnswers == {"proton", "neutron"}

\* the quiz with handleQuizDrop called next to the clicks on the cards
NextQuizDrop ==
    \/ \E answerType \in DropAnswers, slot \in Slots :
          \E targetType \in {answerType, slot} : QuizDrop(answerType, targetType, slot)
    \/ \E card \in Cards : CardClick(card)
    \/ \E i \in 1..MaxQuizTimers : MatchTimer(i)
    \/ \E i \in 1..MaxQuizTimers : RevertTimer(i)
    \/ Tick(MatchDelay)

SpecQuizDrop == InitQuizVisit /\ [][NextQuizDrop]_vars

\* touch input on a placed atom, up to and after the end of the session
NextPointer ==
    \/ \E id \in PointerIds, x \in PointerXs, hit \in BOOLEAN : PointerDown(id, x, hit)
    \/ \E id \in PointerIds, x \in PointerXs : PointerMove(id, x)
    \/ \E id \in PointerIds, x \in ReleaseXs, hit \in BOOLEAN : PointerUp(id, x, hit)
    \/ \E id \in PointerIds, x \in ReleaseXs, hit \in BOOLEAN : PointerOut(id, x, hit)
    \/ ToastTimeout
    \/ SessionEnd

SpecPointer == InitScenes /\ [][NextPointer]_vars

\* presses and releases on a placed atom while time passes
NextTap ==
    \/ \E id \in PointerIds, x \in PointerXs, hit \in BOOLEAN : PointerDown(id, x, hit)
    \/ \E id \in PointerIds, x \in PointerXs : PointerMove(id, x)
    \/ \E id \in PointerIds, x \in ReleaseXs, hit \in BOOLEAN : PointerUp(id, x, hit)
    \/ \E d \in Durations : Elapse(d)

SpecTap == InitScenes /\ [][NextTap]_vars

\* two-pointer gestures off the atom, on positions that halve and double
NextPinch ==
    \/ \E id \in PointerIds, x \in PinchXs : PointerDown(id, x, FALSE)
    \/ \E id \in PointerIds, x \in PinchXs : PointerMove(id, x)
    \/ \E id \in PointerIds : PointerUp(id, 0, TRUE)

SpecPinch == InitScenes /\ [][NextPinch]_vars

ThreePointerIds == {1, 2, 3}

\* gestures of up to three pointers off the atom
NextThree ==
    \/ \E id \in ThreePointerIds, x \in PointerXs : PointerDown(id, x, FALSE)
    \/ \E id \in ThreePointerIds, x \in PointerXs : PointerMove(id, x)
    \/ \E id \in ThreePointerIds : PointerUp(id, 0, FALSE)

SpecThree == InitScenes /\ [][NextThree]_vars

\* factors handed to scaleAtom, as << numerator, denominator >>
Factors == {<<1, 2>>, <<2, 1>>, <<0, 1>>}

\* grips, frames and scaleAtom calls in one session with the atom placed
NextControllers ==
    \/ \E c \in Controllers, x \in ControllerXs : ControllerMove(c, x)
    \/ \E c \in Controllers : ControllerSqueezeStart(c)
    \/ \E c \in Controllers : ControllerSqueezeEnd(c)
    \/ \E hits \in HitInputs : Render(hits)
    \/ \E f \in Factors : ScaleAtom(f[1], f[2])

SpecControllers == InitScenes /\ [][NextControllers]_vars

\* the triggers of two controllers that move, on a placed atom, frame by frame
NextGrab ==
    \/ \E c \in Controllers, x \in ControllerXs : ControllerMove(c, x)
    \/ \E c \in Controllers, hit \in BOOLEAN : ControllerSelectStart(c, hit)
    \/ \E c \in Controllers : ControllerSelectEnd(c)
    \/ \E hits \in HitInputs : Render(hits)

SpecGrab == InitScenes /\ [][NextGrab]_vars

\* the grips of two controllers from the start of a session, through the search
\* for a surface and the placement
NextSqueeze ==
    \/ CompleteInit
    \/ SessionStart
    \/ \E hits \in HitInputs : Render(hits)
    \/ HitTestSourceResolved
    \/ Select
    \/ \E c \in Controllers, x \in ControllerXs : ControllerMove(c, x)
    \/ \E c \in Controllers : ControllerSqueezeStart(c)
    \/ \E c \in Controllers : ControllerSqueezeEnd(c)

SpecSqueeze == Init /\ [][NextSqueeze]_vars

----------------------------------------------------------------------------
(* Properties: scene navigation and placement                              *)

NavEvents == {"gotoScene", "next", "prev"}

\* the handler that ran last was a scene request made with an atom placed
EnteredScene(n) == lastEvent.name \in NavEvents /\ prev.atomPlaced /\ sceneIndex = n

\* the handler that ran last placed the atom
PlacedNow == lastEvent.name = "select" /\ ~prev.atomPlaced /\ atomPlaced

\* C1: a scene request (gotoScene(i), next button, previous button) made while no
\* atom is placed changes neither the scene index, the scene indicator, the lesson
\* panel (content, visibility), the quiz overlay visibility nor the atom and its
\* highlight.
C1_NavigationBeforePlacementIsNoOp ==
    [][(lastEvent'.name \in NavEvents /\ ~atomPlaced)
         => UNCHANGED <<sceneIndex, sceneIndicator, panelHidden, panelContent,
                        challengeHidden, atom, atomClickHandler, quizVars>>]_vars

\* C1 witness: after a session end that left scene 5 behind, gotoScene(3) was
\* requested with no atom placed and the scene index is still 5
C1_Witness ==
    /\ lastEvent = Event("gotoScene", <<3>>)
    /\ ~atomPlaced /\ ~prev.atomPlaced
    /\ imAtom
    /\ sceneIndex = LastScene

\* C2: the scene index is always in 0..5; previous in scene 0 leaves it at 0, next
\* in scene 5 leaves it at 5, and a next/previous request moves it by at most 1.
C2_SceneIndexClamped ==
    /\ sceneIndex \in FirstScene..LastScene
    /\ (lastEvent.name = "prev" /\ prev.sceneIndex = FirstScene) => sceneIndex = FirstScene
    /\ (lastEvent.name = "next" /\ prev.sceneIndex = LastScene) => sceneIndex = LastScene
    /\ lastEvent.name \in {"next", "prev"} => (sceneIndex - prev.sceneIndex) \in {0 - 1, 0, 1}

\* C2 witness: next was requested in scene 5 with the atom placed
C2_Witness ==
    /\ lastEvent.name = "next"
    /\ prev.atomPlaced /\ atomPlaced
    /\ prev.sceneIndex = LastScene
    /\ sceneIndex = LastScene

\* C3: right after a placement the scene index is 0, the scene controls are
\* revealed, the lesson panel is visible and nothing is highlighted (no keep set,
\* every material as created).
C3_PlacementEntersSceneZero ==
    PlacedNow =>
        /\ sceneIndex = FirstScene
        /\ ~footerHidden
        /\ ~panelHidden
        /\ atom # Null
        /\ ~atom[1].isFaded
        /\ atom[1].selectionKeepSet = Null
        /\ Appearance(atom[1]) = Appearance(NewAtom)

\* C3 witness: a placement in a later session, made with scene index 4 left over
C3_Witness == PlacedNow /\ prev.sceneIndex = QuizScene

----------------------------------------------------------------------------
(* Properties: highlighting                                                *)

ProtonMaterial   == <<"protonMaterial", 0>>
NeutronMaterial  == <<"neutronMaterial", 0>>
ElectronMaterial == <<"electronMaterial", 0>>

\* C4: after gotoScene(1) with the atom placed, the protons are the keep set at
\* full opacity, the neutron and electron materials are at the dimmed opacity,
\* and the two glow shells of the nucleus container are hidden.
C4_SceneOneSuppressesGlow ==
    EnteredScene(1) =>
        /\ atom # Null
        /\ atom[1].selectionKeepSet = << KeepSetOf("proton") >>
        /\ atom[1].mats[ProtonMaterial].opacity = 100
        /\ ~atom[1].mats[ProtonMaterial].transparent
        /\ atom[1].mats[NeutronMaterial].opacity = DimOpacity
        /\ atom[1].mats[ElectronMaterial].opacity = DimOpacity
        /\ {Glow(0), Glow(1)} \subseteq atom[1].hidden

\* C5 as stated: on every atom, highlighted or not, highlightKind(k) followed by
\* clearHighlights() gives back the opacity, transparency flag and colour every
\* material had before the highlightKind call, for every kind k, also when the
\* proton or neutron emphasis of scenes 1 and 2 ran in between.
C5_HighlightThenClearRestores ==
    atom # Null =>
        LET a == atom[1] IN
        /\ \A k \in Kinds :
              Appearance(clearHighlights(highlightKind(a, k))) = Appearance(a)
        /\ Appearance(clearHighlights(animateProtons(highlightKind(a, "proton"), FALSE)))
              = Appearance(a)
        /\ Appearance(clearHighlights(animateNeutrons(highlightKind(a, "neutron"), FALSE)))
              = Appearance(a)

\* C5 amended: on every atom, highlighted or not, highlightKind(k) followed by
\* clearHighlights() leaves every material with the opacity, transparency flag
\* and colour of its snapshot, which is the look it was created with, for every
\* kind k, also when the proton or neutron emphasis of scenes 1 and 2 ran in
\* between; that is the look before the highlightKind call whenever nothing was
\* highlighted at the call.
C5_HighlightThenClearGivesOriginal ==
    atom # Null =>
        LET a == atom[1] IN
        /\ ~a.isFaded => Appearance(a) = Appearance(NewAtom)
        /\ \A k \in Kinds :
              Appearance(clearHighlights(highlightKind(a, k))) = Appearance(NewAtom)
        /\ Appearance(clearHighlights(animateProtons(highlightKind(a, "proton"), FALSE)))
              = Appearance(NewAtom)
        /\ Appearance(clearHighlights(animateNeutrons(highlightKind(a, "neutron"), FALSE)))
              = Appearance(NewAtom)

\* C5 witness: the call finds the atom highlighted and recoloured, in the proton
\* scene, where the look before the call is not the look of the snapshots
C5_Witness ==
    /\ atom # Null
    /\ atom[1].isFaded
    /\ atom[1].protonOrigScale # Null
    /\ atom[1].mats[ProtonMaterial].origColor # Null
    /\ atom[1].mats[ProtonMaterial].color = BrightRed
    /\ Appearance(atom[1]) # Appearance(NewAtom)

\* C6: for kinds a # b, highlightKind(a); highlightKind(b) leaves the same
\* opacity, transparency flag and colour on every material as highlightKind(a);
\* clearHighlights(); highlightKind(b).
C6_HighlightNotAdditive ==
    atom # Null =>
        \A a \in Kinds : \A b \in Kinds \ {a} :
            Appearance(highlightKind(highlightKind(atom[1], a), b))
              = Appearance(highlightKind(clearHighlights(highlightKind(atom[1], a)), b))

\* C7: clearHighlights() changes nothing on a freshly created atom or on any atom
\* with nothing highlighted, and a second call in a row changes nothing more.
C7_ClearHighlightsIdempotent ==
    /\ clearHighlights(NewAtom) = NewAtom
    /\ atom # Null =>
          /\ ~atom[1].isFaded => clearHighlights(atom[1]) = atom[1]
          /\ clearHighlights(clearHighlights(atom[1])) = clearHighlights(atom[1])

\* C7 witness: the protons are highlighted, so that the first clearHighlights()
\* does change materials
C7_Witness ==
    /\ atom # Null
    /\ atom[1].isFaded
    /\ atom[1].selectionKeepSet = << KeepSetOf("proton") >>
    /\ Appearance(clearHighlights(atom[1])) # Appearance(atom[1])

----------------------------------------------------------------------------
(* Properties: quiz                                                        *)

AllCorrect == \A t \in Slots : slotCorrect[t]

\* C8: a slot that is marked correct stays marked correct in every later step
\* (the quiz has no reset among its clicks and callbacks).
C8_CorrectSlotStaysCorrect ==
    [][\A t \in Slots : slotCorrect[t] => slotCorrect'[t]]_vars

\* C9: a click on slot s with a selected token of another kind marks no slot
\* correct, puts s in the incorrect state, schedules the revert after the fixed
\* timeout, clears the selection and does not take the token out of the pool; the
\* revert removes the incorrect state and empties the slot's label, marks no slot
\* correct and takes no token out of the pool. A slot in the incorrect state always
\* has a revert pending within the timeout, and leaves that state only by a revert
\* or by a match completing on it.
C9_MismatchFeedback ==
    [][/\ (/\ lastEvent'.name = "slotClick"
            /\ sceneIndex = QuizScene
            /\ selectedAnswer # Null /\ selectedCard # Null
            /\ selectedAnswer # lastEvent'.arg)
          => /\ \A t \in Slots : slotCorrect'[t] => slotCorrect[t]
             /\ slotIncorrect'[lastEvent'.arg[1]]
             /\ selectedAnswer' = Null /\ selectedCard' = Null
             /\ ~cardSelected'[selectedCard[1]]
             /\ cardHidden' = cardHidden
             /\ \E i \in 1..Len(timers') :
                   timers'[i] = Timer("quizRevert", RevertDelay, lastEvent'.arg[1], "", "")
       /\ lastEvent'.name = "revertTimer"
          => /\ ~slotIncorrect'[lastEvent'.arg[1]]
             /\ slotLabel'[lastEvent'.arg[1]] = Null
             /\ slotCorrect' = slotCorrect
             /\ cardHidden' = cardHidden
             /\ selectedAnswer' = selectedAnswer
       /\ \A t \in Slots :
             /\ slotIncorrect'[t]
                  => \E i \in 1..Len(timers') :
                        /\ timers'[i].kind = "quizRevert" /\ timers'[i].slot = t
                        /\ timers'[i].left <= RevertDelay
             /\ (slotIncorrect[t] /\ ~slotIncorrect'[t])
                  => lastEvent'.name \in {"revertTimer", "matchTimer"} /\ lastEvent'.arg[1] = t
      ]_vars

\* C9 witness: the electron token was just placed on the proton slot: the slot
\* shows the incorrect state, its revert is pending, nothing is selected, no slot
\* is correct and the electron token is still in the pool
C9_Witness ==
    /\ lastEvent = Event("slotClick", <<"proton">>)
    /\ quizStatus = <<"retry", "electron">>
    /\ slotIncorrect["proton"]
    /\ \E i \in 1..Len(timers) : timers[i].kind = "quizRevert" /\ timers[i].slot = "proton"
    /\ selectedAnswer = Null
    /\ \A t \in Slots : ~slotCorrect[t]
    /\ ~cardHidden["electron"]

\* C10: the completion message is on display only while all three slots are
\* correct; a match callback shows it exactly when it leaves all three slots
\* correct; and when every placement so far was of a token not yet matched onto
\* its own slot, the message has been shown once if all slots are correct and
\* not at all otherwise.
C10_CompletionExactlyAtThree ==
    /\ quizStatus = <<"complete">> => AllCorrect
    /\ lastEvent.name = "matchTimer" => (quizStatus = <<"complete">> <=> AllCorrect)
    /\ ~quizLog.strayed => quizLog.shown = (IF AllCorrect THEN 1 ELSE 0)

\* C10 witness: the third of three clean matches has just completed
C10_Witness ==
    /\ lastEvent.name = "matchTimer"
    /\ ~quizLog.strayed
    /\ AllCorrect
    /\ \A c \in Cards : cardHidden[c]
    /\ quizStatus = <<"complete">>
    /\ quizLog.shown = 1

\* C11: right after every entry into scene 4 no slot is marked correct or
\* incorrect, no token is selected and no token is hidden from the pool.
C11_QuizResetOnEntry ==
    EnteredScene(QuizScene) =>
        /\ \A t \in Slots : ~slotCorrect[t] /\ ~slotIncorrect[t]
        /\ selectedAnswer = Null /\ selectedCard = Null
        /\ \A c \in Cards : ~cardSelected[c] /\ ~cardHidden[c]

\* C12: at most one answer card carries the selected mark; a click on a card
\* leaves it the only card marked selected and makes it the current answer.
C12_SingleSelection ==
    /\ Cardinality({c \in Cards : cardSelected[c]}) <= 1
    /\ selectedAnswer = selectedCard
    /\ selectedAnswer # Null => cardSelected[selectedAnswer[1]]
    /\ lastEvent.name = "cardClick" =>
          /\ selectedAnswer = lastEvent.arg
          /\ cardSelected = [c \in Cards |-> <<c>> = lastEvent.arg]

\* C12 witness: the neutron card was clicked while a mismatch of another card is
\* still showing; it is the only selected card
C12_Witness ==
    /\ lastEvent = Event("cardClick", <<"neutron">>)
    /\ selectedAnswer = <<"neutron">>
    /\ cardSelected["neutron"]
    /\ \E t \in Slots : slotIncorrect[t]
    /\ timers # << >>

\* C13: a click on a slot while no token is selected shows the select-first
\* prompt and changes no slot marking, no slot label, no token's visibility or
\* selected mark, no selection and schedules nothing.
C13_SlotClickWithoutSelection ==
    [][(/\ lastEvent'.name = "slotClick"
        /\ (selectedAnswer = Null \/ selectedCard = Null))
         => /\ quizStatus' = <<"selectFirst">>
            /\ UNCHANGED <<slotCorrect, slotIncorrect, slotLabel, cardHidden, cardSelected,
                           selectedAnswer, selectedCard, timers>>]_vars

\* C13 witness: with one slot solved and nothing selected a slot was clicked (one
\* listener per slot, so the prompt comes from that click alone)
C13_Witness ==
    /\ lastEvent.name = "slotClick"
    /\ quizListeners = 1
    /\ quizStatus = <<"selectFirst">>
    /\ selectedAnswer = Null
    /\ \E t \in Slots : slotCorrect[t]

\* C14: a token whose match has been accepted (it is on its way to its slot, or
\* hidden) is never the currently selected answer.
C14_MatchedTokenOutOfPool ==
    \A c \in Cards : Accepted(QuizState, c) => selectedAnswer # <<c>>

----------------------------------------------------------------------------
(* Properties: touch gestures                                              *)

\* C15: the release that leaves no active pointer runs the tap handler exactly
\* when less than 250 ms have passed since the pointer went down and the pointer
\* is less than 8 px from where it went down; a tap test is only made by such a
\* release
C15_TapClassification ==
    im.release # Null =>
        /\ im.activePointers = << >>
        /\ im.release[1].tap <=> (im.release[1].dt < 250 /\ im.release[1].moved < 8)
        /\ (im.release[1].dt = 249 /\ im.release[1].moved = 7) => im.release[1].tap
        /\ (im.release[1].dt = 251 \/ im.release[1].moved = 9) => ~im.release[1].tap

\* a release 249 ms after the pointer went down and 7 px away was taken as a tap
C15_Witness == im.release = <<[dt |-> 249, moved |-> 7, tap |-> TRUE]>>

\* C16: whenever onPointerDown registers a second pointer, the rotation flag is
\* false right after it, whatever it was before; with two pointers registered
\* the flag is never set
C16_SecondPointerEndsRotation ==
    [][/\ (lastEvent'.name = "pointerDown" /\ Len(im.activePointers) = 1
            /\ Len(im'.activePointers) = 2) => ~im'.isTouchRotating
       /\ Len(im'.activePointers) = 2 => ~im'.isTouchRotating]_vars

\* a second pointer has just registered on an atom that a one-pointer drag turned
C16_Witness ==
    /\ lastEvent.name = "pointerDown"
    /\ Len(im.activePointers) = 2
    /\ atom # Null /\ atom[1].rotationY.lin # 0
    /\ im.initialRotationY = atom[1].rotationY
    /\ ~im.isTouchRotating

\* C17: once two pointers have been registered together, a move of the single
\* pointer that remains changes neither the rotation nor the scale of the atom;
\* the rotation flag stays false until activePointers is empty, and is set only
\* by a pointerdown that registers the first pointer
C17_RotationDoesNotResume ==
    [][/\ (lastEvent'.name = "pointerMove" /\ im.hadTwo /\ Len(im.activePointers) = 1)
            => Target' = Target
       /\ im'.hadTwo => ~im'.isTouchRotating
       /\ (im.hadTwo /\ im'.activePointers # << >>) => im'.hadTwo
       /\ (~im.isTouchRotating /\ im'.isTouchRotating)
            => (lastEvent'.name = "pointerDown" /\ im.activePointers = << >>)]_vars

\* the pointer that remains of a two-pointer gesture has moved
C17_Witness ==
    /\ lastEvent = Event("pointerMove", <<TRUE>>)
    /\ im.hadTwo
    /\ Len(im.activePointers) = 1
    /\ pointersDown = {im.activePointers[1].id}
    /\ Len(timers) = 0 /\ atom # Null
    /\ atom[1].baseScale # UnitScale

----------------------------------------------------------------------------
(* Properties: scaling                                                     *)

\* C18: whatever the scaling path (pinch, two-controller squeeze, scaleAtom) and
\* the ratio, the scale written to the atom is the product clamped to
\* [0.1, 5.0]: the scale of the atom is always a number within these bounds
C18_ScaleClamped ==
    atom # Null =>
        /\ MinScale <= atom[1].baseScale /\ atom[1].baseScale <= MaxScale
        /\ MinScale <= atom[1].groupScale /\ atom[1].groupScale <= MaxScale

----------------------------------------------------------------------------
(* Properties: lifetime of the atom and of the gesture state               *)

\* C19: at most one atom exists at a time; it exists exactly while atomPlaced is
\* true, comes into being only by a placement, and after a session end there is
\* none: the one there was has left the scene and has been disposed once
C19_OneAtomAtATime ==
    /\ instances.inScene \in {0, 1}
    /\ instances.undisposed \in {0, 1}
    /\ (atom # Null) <=> atomPlaced
    /\ instances.inScene = (IF atomPlaced THEN 1 ELSE 0)
    /\ instances.undisposed = (IF atomPlaced THEN 1 ELSE 0)
    /\ (atomPlaced /\ ~prev.atomPlaced) => lastEvent.name = "select"
    /\ lastEvent.name = "sessionend" =>
          (atom = Null /\ instances = [inScene |-> 0, undisposed |-> 0])

\* the session of a placed atom has just ended
C19_Witness ==
    /\ lastEvent.name = "sessionend"
    /\ prev.atomPlaced
    /\ atom = Null
    /\ staleAtom # Null
    /\ instances = [inScene |-> 0, undisposed |-> 0]

\* the gesture state of the interaction manager is neutral
GestureStateNeutral(m) ==
    /\ ~m.isGrabbing /\ m.grabController = Null
    /\ ~m.isScaling /\ m.scalingControllers = << >>
    /\ ~m.isTouchRotating /\ ~m.isTouchGrabbing /\ ~m.hasTouchTarget
    /\ m.initialTouchDistance = 0
    /\ m.activePointers = << >>

\* C20: right after a session end the gesture state is neutral, no pointer is
\* registered and the interaction manager holds no atom; until the next
\* placement no event changes the transform of the atom that was destroyed
C20_SessionEndResetsGestures ==
    [][/\ lastEvent'.name = "sessionend" => (GestureStateNeutral(im') /\ ~imAtom')
       /\ (atom = Null /\ atom' = Null) => staleAtom' = staleAtom]_vars

----------------------------------------------------------------------------
(* Properties: placement surface tracking and the frame                    *)

\* C21: right after every session end the reticle is not visible, no hit-test
\* source is held and no request is marked as made, also when the session ends
\* while the reticle is visible before any placement
C21_TrackerResetOnSessionEnd ==
    lastEvent.name = "sessionend" =>
        (~reticleVisible /\ ~hitTestSource /\ ~hitTestSourceRequested /\ ~requestPending)

\* C22: a select places the atom only when the reticle is visible and no atom is
\* placed; while the atom is placed the reticle is never visible and no frame
\* queries the surface, also when the hit-test source request made before the
\* placement is fulfilled after it
C22_NoTrackingAfterPlacement ==
    [][ /\ (~atomPlaced /\ atomPlaced') => (reticleVisible /\ lastEvent'.name = "select")
        /\ atomPlaced' => ~reticleVisible'
        /\ (atomPlaced /\ lastEvent'.name = "render") =>
              (~lastEvent'.arg[1].query /\ hitTestSourceRequested' = hitTestSourceRequested)
      ]_vars

\* a frame runs with the atom placed and a hit-test source that arrived after the
\* placement
C22_Witness ==
    atomPlaced /\ hitTestSource /\ lastEvent.name = "render"

\* the hit-test source request of the running session was rejected: it was made,
\* it is no longer pending and it left no source
RequestFailed ==
    isARActive /\ hitTestSourceRequested /\ ~requestPending /\ ~hitTestSource

\* C23: once the hit-test source request of a session has failed, no further
\* request is made in that session, the reticle is hidden for the rest of the
\* session and the atom is not placed; only a new session makes a new request
C23_FailedRequestIsFinal ==
    [][ RequestFailed =>
          /\ ~reticleVisible /\ ~reticleVisible'
          /\ ~requestPending'
          /\ ~atomPlaced'
          /\ isARActive' => RequestFailed'
      ]_vars

\* C24: every frame performs its steps in the order surface tracking, particle
\* animation, application of the pending gestures, draw call
C24_FrameOrder ==
    lastEvent.name = "render" =>
        LET steps == lastEvent.arg[1].steps
            At(name) == IF \E i \in 1..Len(steps) : steps[i] = name
                        THEN CHOOSE i \in 1..Len(steps) : steps[i] = name
                        ELSE 0
        IN  /\ At("tracking") > 0 /\ At("gestures") > 0 /\ At("draw") = Len(steps)
            /\ At("animate") > 0 => At("tracking") < At("animate")
            /\ At("animate") < At("gestures")
            /\ At("tracking") < At("gestures")
            /\ At("gestures") < At("draw")

----------------------------------------------------------------------------
(* Properties: scene effects on the overlay and on the particles           *)

\* C25: the quiz overlay is visible only while an atom is placed and the scene
\* index is 4: a transition into any other scene hides it, and it is not visible
\* after a session end
C25_QuizOverlayOnlyInScene4 ==
    ~challengeHidden => (atomPlaced /\ sceneIndex = 4)

\* what highlightKind, restoreOpacity and the emphasis functions decide on an atom:
\* the look of every material, the keep set, the hidden objects and the scale of
\* the proton and neutron meshes
HighlightState(a) ==
    [appearance |-> Appearance(a),
     emissive |-> [m \in Materials |-> a.mats[m].emissive],
     keepSet |-> a.selectionKeepSet,
     isFaded |-> a.isFaded,
     hidden |-> a.hidden,
     protonScale |-> a.protonScale,
     neutronScale |-> a.neutronScale]

\* the material of each kind of particle
KindMaterial(kind) ==
    CASE kind = "proton"  -> ProtonMaterial
      [] kind = "neutron" -> NeutronMaterial
      [] OTHER            -> ElectronMaterial

\* the kind that each scene emphasises, if any
SceneKind(n) ==
    CASE n = 1 -> <<"proton">>
      [] n = 2 -> <<"neutron">>
      [] n = 3 -> <<"electron">>
      [] OTHER -> Null

\* C26: right after every completed scene transition the highlight state of the
\* atom is the one that entering that scene gives on a new atom, whatever was
\* visited before: in scenes 1, 2, 3 exactly the protons, the neutrons, the
\* electrons are kept and the other two kinds are dimmed; in scenes 0, 4 and 5
\* nothing is highlighted, every material has its original look and the proton
\* and neutron meshes have their original scale
C26_HighlightDeterminedByScene ==
    \A n \in FirstScene..LastScene :
        EnteredScene(n) =>
            /\ atom # Null
            /\ HighlightState(atom[1]) = HighlightState(SceneAtom(n, <<NewAtom>>)[1])
            /\ SceneKind(n) # Null =>
                  /\ atom[1].selectionKeepSet = << KeepSetOf(SceneKind(n)[1]) >>
                  /\ \A k \in Kinds :
                        atom[1].mats[KindMaterial(k)].opacity =
                            IF k = SceneKind(n)[1] THEN 100 ELSE DimOpacity
            /\ SceneKind(n) = Null =>
                  /\ ~atom[1].isFaded
                  /\ atom[1].selectionKeepSet = Null
                  /\ Appearance(atom[1]) = Appearance(NewAtom)
                  /\ atom[1].protonScale = NewAtom.protonScale
                  /\ atom[1].neutronScale = NewAtom.neutronScale

\* the summary scene is entered from the neutron scene, after the proton scene
\* left its snapshots on the atom
C26_Witness ==
    /\ EnteredScene(LastScene)
    /\ atom # Null
    /\ atom[1].protonOrigScale # Null
    /\ atom[1].neutronOrigScale # Null
    /\ atom[1].mats[ElectronMaterial].origOpacity # Null

\* C27 as stated: while the atom is placed in scene 1 the protons are enlarged
\* and their pulse is active, in scene 2 the neutrons are enlarged and their pulse
\* is active, and outside those scenes the pulse is off and the scale restored
C27_PulseWhileInScene ==
    atomPlaced =>
        /\ atom[1].protonsAnimating = (sceneIndex = 1)
        /\ atom[1].neutronsAnimating = (sceneIndex = 2)
        /\ sceneIndex = 1 => atom[1].protonScale \in PulseScales
        /\ sceneIndex = 2 => atom[1].neutronScale \in PulseScales
        /\ sceneIndex # 1 => atom[1].protonScale = NewAtom.protonScale
        /\ sceneIndex # 2 => atom[1].neutronScale = NewAtom.neutronScale

\* C27 amended: while the atom is placed in scene 1 the protons have the
\* emphasis scale 1.5 on every frame and in scene 2 the neutrons have it; no
\* pulse is ever active; outside those scenes the original scale is restored
C27_EmphasisWithoutPulse ==
    atomPlaced =>
        /\ ~atom[1].protonsAnimating
        /\ ~atom[1].neutronsAnimating
        /\ atom[1].protonScale =
              (IF sceneIndex = 1 THEN EmphasisScale ELSE NewAtom.protonScale)
        /\ atom[1].neutronScale =
              (IF sceneIndex = 2 THEN EmphasisScale ELSE NewAtom.neutronScale)

\* a frame is drawn in the neutron scene after the proton scene was left
C27_Witness ==
    /\ lastEvent.name = "render"
    /\ atomPlaced
    /\ sceneIndex = 2
    /\ atom[1].protonOrigScale # Null
    /\ atom[1].neutronScale = EmphasisScale

----------------------------------------------------------------------------
(* Properties: taps and controllers                                        *)

\* C28: a release that is taken as a tap on the placed atom and gives no
\* no-target message (its ray hit a particle) changes the highlight: it leaves
\* the particles of one kind highlighted, or clears the highlight that was there;
\* a tap that newly gives the no-target message (its ray missed) changes no
\* highlight
C28_TapTogglesHighlight ==
    [][ (/\ lastEvent'.name = "pointerUp"
         /\ imAtom /\ atom # Null
         /\ im'.release # Null
         /\ im'.release[1].tap) =>
            /\ im'.toast # <<"noTarget">> =>
                  /\ HighlightState(atom'[1]) # HighlightState(atom[1])
                  /\ \/ atom'[1].selectionKeepSet \in {<<KeepSetOf(k)>> : k \in Kinds}
                     \/ (atom[1].isFaded /\ ~atom'[1].isFaded)
            /\ (im.toast # <<"noTarget">> /\ im'.toast = <<"noTarget">>) =>
                  HighlightState(atom'[1]) = HighlightState(atom[1])
      ]_vars

\* C29: a trigger press whose ray meets the atom starts a grab by that controller
\* from the positions of the controller and of the atom at that moment, and a
\* press that misses starts none; every frame during a grab puts the atom at its
\* position at the start plus the way the grab controller has moved since; the
\* grab flag is set exactly while a grab controller is recorded; the trigger
\* release of the recorded controller ends the grab, the release of the other
\* controller does not
C29_ControllerGrab ==
    [][ LET grab(m) == <<m.isGrabbing, m.grabController, m.initialControllerPosition,
                         m.initialAtomPosition>>
            e == lastEvent'
        IN  /\ im'.isGrabbing <=> (im'.grabController # Null)
            /\ (e.name = "selectstart" /\ e.arg[2]) =>
                  grab(im') = <<TRUE, <<e.arg[1]>>, controllers.pos[e.arg[1]],
                                atom[1].position>>
            /\ (e.name = "selectstart" /\ ~e.arg[2]) => grab(im') = grab(im)
            /\ (e.name = "render" /\ im.isGrabbing) =>
                  atom'[1].position = im.initialAtomPosition
                      + (controllers.pos[im.grabController[1]] - im.initialControllerPosition)
            /\ (e.name = "render" /\ ~im.isGrabbing) =>
                  atom'[1].position = atom[1].position
            /\ (e.name = "selectend" /\ im.grabController = <<e.arg[1]>>) =>
                  ~im'.isGrabbing
            /\ (e.name = "selectend" /\ im.grabController # <<e.arg[1]>>) =>
                  grab(im') = grab(im)
            /\ e.name \in {"selectstart", "selectend", "controllerMove"} =>
                  atom'[1].position = atom[1].position
      ]_vars

\* a frame has moved the grabbed atom while the other controller, itself moved
\* away from its first position, holds no trigger
C29_Witness ==
    /\ lastEvent.name = "render"
    /\ im.isGrabbing
    /\ atom[1].position # im.initialAtomPosition
    /\ \E c \in Controllers :
          /\ im.grabController # <<c>>
          /\ c \notin controllers.selectHeld
          /\ controllers.pos[c] # 0

\* C30: two-controller scaling is active exactly while an atom exists and both
\* controllers hold their grips, whatever the order of grip presses, grip
\* releases and the placement, a grip pressed before the placement included
C30_ScalingIffBothSqueezing ==
    im.isScaling <=> (atom # Null /\ controllers.squeezeHeld = Controllers)

----------------------------------------------------------------------------
(* Properties: pointer releases and multi-pointer gestures                 *)

\* C31: a release (pointerup, pointercancel, pointerout, pointerleave) that
\* leaves fewer than two registered pointers clears the pinch baseline, and a
\* later move of the one pointer that remains never changes the scale, nor the
\* rotation once two pointers had been down; a release that leaves none clears
\* the rotation and drag flags and the start time and position of the tap; a
\* release event that finds no pointer registered classifies nothing and changes
\* nothing
C31_ReleaseClearsGesture ==
    [][ LET released == lastEvent'.name \in {"pointerUp", "pointerOut"} IN
        /\ (released /\ Len(im'.activePointers) < 2) => im'.initialTouchDistance = 0
        /\ (released /\ im'.activePointers = << >>) =>
              /\ ~im'.isTouchRotating /\ ~im'.isTouchGrabbing /\ ~im'.hasTouchTarget
              /\ im'.tapStartTime = Null /\ im'.tapStartPos = Null
        /\ (released /\ im.activePointers = << >>) =>
              /\ im'.release = Null
              /\ im'.toast = im.toast
              /\ Target' = Target
        /\ (lastEvent'.name = "pointerMove" /\ Len(im.activePointers) < 2 /\ Target # Null) =>
              /\ Target'[1].groupScale = Target[1].groupScale
              /\ Target'[1].baseScale = Target[1].baseScale
              /\ im.hadTwo => Target'[1].rotationY = Target[1].rotationY
      ]_vars

\* a pointerout arrived with no pointer registered, after a tap that missed the
\* atom had been classified: it classified nothing
C31_Witness ==
    /\ lastEvent.name = "pointerOut"
    /\ im.activePointers = << >>
    /\ pointersDown = {}
    /\ im.release = Null
    /\ im.toast = <<"noTarget">>

----------------------------------------------------------------------------
(* Properties: deferred callbacks of the quiz and of the lesson panel      *)

\* C32: a slot that is marked correct shows the name of its kind, also when the
\* revert of an earlier mismatch on that slot fires after the match
C32_CorrectSlotKeepsLabel ==
    \A t \in Slots : slotCorrect[t] => slotLabel[t] = <<t>>

\* C33: from the placement on, getScale() equals the scale that the group of the
\* atom carries; so the baseline that a pinch or a squeeze records is the
\* displayed scale
C33_GetScaleIsAppliedScale ==
    atom # Null => getScale(Transform(atom[1])) = atom[1].groupScale

\* C34: with the atom placed and no callback pending, the lesson panel shows the
\* text of the current scene: in scenes 1, 2, 3 and 5 the text that gotoScene
\* wrote for that scene, and in scene 0 never the empty-click warning
C34_PanelShowsCurrentScene ==
    (atomPlaced /\ timers = << >>) =>
        /\ sceneIndex \in {1, 2, 3, 5} => panelContent = SceneContent(sceneIndex, panelContent)
        /\ sceneIndex = 0 => panelContent # "warning"

\* C35: the speed-up of the electrons is transient: whenever no restore callback
\* of animateElectronMovement is pending, every electron moves at the speed it
\* was configured with
C35_SpeedRestored ==
    (atom # Null /\ \A i \in 1..Len(timers) : timers[i].kind # "speedRestore") =>
        atom[1].electronSpeed = NewAtom.electronSpeed

----------------------------------------------------------------------------
(* Properties: gestures of more than one pointer                           *)

\* C36: a release that ends a gesture in which a second pointer was down is
\* not classified as a tap: the tap handler runs only for gestures of one pointer
C36_NoTapAfterTwoPointers ==
    [][ (lastEvent'.name \in {"pointerUp", "pointerOut"} /\ im.hadTwo /\ im'.release # Null)
            => ~im'.release[1].tap ]_vars

\* C37: a move that finds exactly two pointers registered, and so applies the
\* pinch and the twist, works on baselines that were taken from those two pointers
C37_BaselineOfSamePair ==
    [][ (/\ lastEvent'.name = "pointerMove" /\ lastEvent'.arg = <<TRUE>>
         /\ Target # Null
         /\ Len(im.activePointers) = 2)
            => im.baselinePair = <<{im.activePointers[1].id, im.activePointers[2].id}>> ]_vars

----------------------------------------------------------------------------
(* Properties: the quiz across visits of its scene                         *)

\* C38: the state of the quiz changes only while scene 4 is the current scene:
\* a step taken in another scene, and ending in another scene, marks no slot,
\* hides no token, writes no label and leaves the status message as it is
C38_QuizChangesOnlyInScene4 ==
    [][ (sceneIndex # QuizScene /\ sceneIndex' # QuizScene) =>
            UNCHANGED <<slotCorrect, slotIncorrect, slotLabel, cardHidden, quizStatus>> ]_vars

\* C39: a click on a slot in scene 4 while a token is selected makes one
\* placement attempt with one outcome, however often the scene was entered:
\* it schedules one deferred callback, it does not also show the select-first
\* prompt, and a mismatch leaves its try-again message on display
C39_OneAttemptPerClick ==
    [][ (/\ lastEvent'.name = "slotClick"
         /\ sceneIndex = QuizScene
         /\ selectedAnswer # Null /\ selectedCard # Null)
            => /\ Len(timers') = Len(timers) + 1
               /\ quizStatus' # <<"selectFirst">>
               /\ selectedAnswer # lastEvent'.arg => quizStatus' = <<"retry", selectedAnswer[1]>> ]_vars

====
